---- MODULE Spec2Model ----
(***************************************************************************)
(* Call-session state machine of the Twilio <-> OpenAI Realtime bridge     *)
(* (src/src/index.ts, the variant that imports call-forwarding.ts, and     *)
(* src/src/call-forwarding.ts): the transcript store and the forwarding    *)
(* decision engine with the call transfer it starts.                       *)
(*                                                                         *)
(* Text is modelled by real strings; String.prototype.includes, trim and   *)
(* toLowerCase are computed character by character.                        *)
(***************************************************************************)
EXTENDS Integers, Sequences, FiniteSets, TLC

(***************************************************************************)
(* JavaScript values and string primitives                                 *)
(***************************************************************************)

\* null / undefined of a nullable field
Null == "<null>"

\* undefined, for an optional string-valued field
Undefined == "<undefined>"

\* an optional number (confidence?: number): Absent when not provided,
\* Some(n) when provided
Absent == << >>
Some(n) == << n >>

\* String.prototype.toLowerCase on one character
LowerChar(c) ==
    CASE c = "A" -> "a" [] c = "B" -> "b" [] c = "C" -> "c" [] c = "D" -> "d"
      [] c = "E" -> "e" [] c = "F" -> "f" [] c = "G" -> "g" [] c = "H" -> "h"
      [] c = "I" -> "i" [] c = "J" -> "j" [] c = "K" -> "k" [] c = "L" -> "l"
      [] c = "M" -> "m" [] c = "N" -> "n" [] c = "O" -> "o" [] c = "P" -> "p"
      [] c = "Q" -> "q" [] c = "R" -> "r" [] c = "S" -> "s" [] c = "T" -> "t"
      [] c = "U" -> "u" [] c = "V" -> "v" [] c = "W" -> "w" [] c = "X" -> "x"
      [] c = "Y" -> "y" [] c = "Z" -> "z" [] OTHER -> c

\* String.prototype.toLowerCase (the string is split in halves to keep the
\* recursion shallow)
RECURSIVE toLowerCase(_)
toLowerCase(s) ==
    IF Len(s) = 0 THEN ""
    ELSE IF Len(s) = 1 THEN LowerChar(s)
    ELSE LET half == Len(s) \div 2
         IN  toLowerCase(SubSeq(s, 1, half)) \o toLowerCase(SubSeq(s, half + 1, Len(s)))

\* String.prototype.includes
includes(s, phrase) ==
    \E i \in 1..(Len(s) - Len(phrase) + 1) : SubSeq(s, i, i + Len(phrase) - 1) = phrase

IsWhiteSpace(c) == c \in {" ", "\t", "\n", "\r"}

RECURSIVE trimStart(_)
trimStart(s) ==
    IF Len(s) > 0 /\ IsWhiteSpace(SubSeq(s, 1, 1))
    THEN trimStart(SubSeq(s, 2, Len(s)))
    ELSE s

RECURSIVE trimEnd(_)
trimEnd(s) ==
    IF Len(s) > 0 /\ IsWhiteSpace(SubSeq(s, Len(s), Len(s)))
    THEN trimEnd(SubSeq(s, 1, Len(s) - 1))
    ELSE s

\* String.prototype.trim
trim(s) == trimEnd(trimStart(s))

\* Array.prototype.slice(-n)
SliceLast(seq, n) ==
    IF Len(seq) <= n THEN seq ELSE SubSeq(seq, Len(seq) - n + 1, Len(seq))

\* Array.prototype.filter
RECURSIVE FilterRole(_, _)
FilterRole(seq, role) ==
    IF seq = << >> THEN << >>
    ELSE IF Head(seq).role = role
         THEN << Head(seq) >> \o FilterRole(Tail(seq), role)
         ELSE FilterRole(Tail(seq), role)

(***************************************************************************)
(* extractEmail: the two regular expressions, matched as a backtracking    *)
(* engine matches them (leftmost start, greedy quantifiers). Each operator *)
(* below matches the rest of the expression from one position on.          *)
(***************************************************************************)

Ch(s, i) == SubSeq(s, i, i)

Letters ==
    { "a", "b", "c", "d", "e", "f", "g", "h", "i", "j", "k", "l", "m", "n",
      "o", "p", "q", "r", "s", "t", "u", "v", "w", "x", "y", "z",
      "A", "B", "C", "D", "E", "F", "G", "H", "I", "J", "K", "L", "M", "N",
      "O", "P", "Q", "R", "S", "T", "U", "V", "W", "X", "Y", "Z" }
Digits == { "0", "1", "2", "3", "4", "5", "6", "7", "8", "9" }

\* the character classes [a-zA-Z], \w, [a-zA-Z0-9._%+-], [a-zA-Z0-9.-], \s
CharIn(class, c) ==
    CASE class = "letter" -> c \in Letters
      [] class = "word" -> c \in Letters \cup Digits \cup { "_" }
      [] class = "local" -> c \in Letters \cup Digits \cup { ".", "_", "%", "+", "-" }
      [] class = "domain" -> c \in Letters \cup Digits \cup { ".", "-" }
      [] class = "space" -> IsWhiteSpace(c)
      [] class = "notDot" -> c # "."

\* last index of the longest run of characters of a class that starts at i
\* (i - 1 when the character at i is not in the class)
RECURSIVE RunEnd(_, _, _)
RunEnd(s, i, class) ==
    IF i <= Len(s) /\ CharIn(class, Ch(s, i)) THEN RunEnd(s, i + 1, class) ELSE i - 1

\* a || b on nullable strings
OrElse(a, b) == IF a # Null THEN a ELSE b

\* \.[a-zA-Z]{2,} with the dot at index k
IsTldDot(s, k) ==
    /\ Ch(s, k) = "."
    /\ k + 2 <= Len(s)
    /\ CharIn("letter", Ch(s, k + 1))
    /\ CharIn("letter", Ch(s, k + 2))

\* [a-zA-Z0-9.-]+ gives characters back from index d down to the last dot
\* that a top-level domain follows; the index of that dot, or 0
RECURSIVE LastTldDot(_, _, _)
LastTldDot(s, first, k) ==
    IF k <= first THEN 0
    ELSE IF IsTldDot(s, k) THEN k
    ELSE LastTldDot(s, first, k - 1)

\* the match of emailRegex that starts at i, the dot before its top-level
\* domain at index k (0: there is none)
EmailFromDot(s, i, k) ==
    IF k > 0 THEN SubSeq(s, i, RunEnd(s, k + 1, "letter")) ELSE Null

\* the match of emailRegex that starts at i, its '@' expected at index at
EmailFromAt(s, i, at) ==
    IF at > i /\ at <= Len(s) /\ Ch(s, at) = "@"
    THEN EmailFromDot(s, i, LastTldDot(s, at + 1, RunEnd(s, at + 1, "domain")))
    ELSE Null

\* /[a-zA-Z0-9._%+-]+@[a-zA-Z0-9.-]+\.[a-zA-Z]{2,}/ anchored at index i:
\* the matched text, or Null
emailRegexAt(s, i) == EmailFromAt(s, i, RunEnd(s, i, "local") + 1)

\* the index after one of the alternatives (matched case-insensitively) at i,
\* or 0 when none matches there
RECURSIVE AfterAlternative(_, _, _)
AfterAlternative(s, i, alternatives) ==
    IF alternatives = << >> THEN 0
    ELSE IF /\ i + Len(Head(alternatives)) - 1 <= Len(s)
            /\ toLowerCase(SubSeq(s, i, i + Len(Head(alternatives)) - 1)) = Head(alternatives)
         THEN i + Len(Head(alternatives))
         ELSE AfterAlternative(s, i, Tail(alternatives))

\* \b between index i - 1 and index i
IsWordBoundary(s, i) ==
    (i > 1 /\ CharIn("word", Ch(s, i - 1))) # (i <= Len(s) /\ CharIn("word", Ch(s, i)))

\* The spoken form, stage by stage. from..to is a capture group; next is the
\* index the stage starts at, 0 when the stage before it failed.

\* ([a-zA-Z]{2,})\b
SpokenTld(local, domain, s, from, to) ==
    IF to >= from + 1 /\ IsWordBoundary(s, to + 1)
    THEN local \o "@" \o domain \o "." \o SubSeq(s, from, to)
    ELSE Null

\* \s+ before the third group
SpokenSpaceBeforeTld(local, domain, s, next, to) ==
    IF next > 0 /\ to >= next
    THEN SpokenTld(local, domain, s, to + 1, RunEnd(s, to + 1, "letter"))
    ELSE Null

\* \s+(?:dot|\(dot\)|period|\.), dots being the alternatives of the regex at hand
SpokenDot(dots, local, domain, s, next, to) ==
    IF to >= next
    THEN SpokenSpaceBeforeTld(local, domain, s,
             AfterAlternative(s, to + 1, dots),
             RunEnd(s, AfterAlternative(s, to + 1, dots),
                    "space"))
    ELSE Null

\* ([a-zA-Z0-9.-]+)
SpokenDomain(dots, local, s, from, to) ==
    IF to >= from
    THEN SpokenDot(dots, local, SubSeq(s, from, to), s, to + 1, RunEnd(s, to + 1, "space"))
    ELSE Null

\* \s+ before the second group
SpokenSpaceBeforeDomain(dots, local, s, next, to) ==
    IF next > 0 /\ to >= next
    THEN SpokenDomain(dots, local, s, to + 1, RunEnd(s, to + 1, "domain"))
    ELSE Null

\* \s+(?:at|\(at\)|@), ats being the alternatives of the regex at hand
SpokenAt(ats, dots, local, s, next, to) ==
    IF to >= next
    THEN SpokenSpaceBeforeDomain(dots, local, s,
             AfterAlternative(s, to + 1, ats),
             RunEnd(s, AfterAlternative(s, to + 1, ats), "space"))
    ELSE Null

\* ([a-zA-Z0-9._%+-]+)
SpokenLocal(ats, dots, s, from, to) ==
    IF to >= from
    THEN SpokenAt(ats, dots, SubSeq(s, from, to), s, to + 1, RunEnd(s, to + 1, "space"))
    ELSE Null

\* /\b([a-zA-Z0-9._%+-]+)\s+(?:at|\(at\)|@)\s+([a-zA-Z0-9.-]+)\s+
\*   (?:dot|\(dot\)|period|\.)\s+([a-zA-Z]{2,})\b/i anchored at index i:
\* `${1}@${2}.${3}`, or Null
spokenEmailRegexAt(s, i) ==
    IF IsWordBoundary(s, i)
    THEN SpokenLocal(<< "at", "(at)", "@" >>, << "dot", "(dot)", "period", "." >>,
                     s, i, RunEnd(s, i, "local"))
    ELSE Null

\* the least index of a non-empty set of indexes
Leftmost(indexes) == CHOOSE i \in indexes : \A j \in indexes : i <= j

\* text.match(emailRegex): the match at the leftmost index that has one
matchEmailRegex(s) ==
    IF \E i \in 1..Len(s) : emailRegexAt(s, i) # Null
    THEN emailRegexAt(s, Leftmost({ i \in 1..Len(s) : emailRegexAt(s, i) # Null }))
    ELSE Null

\* text.match(spokenEmailRegex), rebuilt as `${1}@${2}.${3}`
matchSpokenEmailRegex(s) ==
    IF \E i \in 1..Len(s) : spokenEmailRegexAt(s, i) # Null
    THEN spokenEmailRegexAt(s, Leftmost({ i \in 1..Len(s) : spokenEmailRegexAt(s, i) # Null }))
    ELSE Null

\* /\b([a-zA-Z0-9._%+-]+)\s+at\s+([a-zA-Z0-9.-]+)\s+dot\s+([a-zA-Z]{2,})\b/i, the
\* narrower spoken form that createKayakoTicket runs over the audio transcript,
\* anchored at index i
atDotEmailRegexAt(s, i) ==
    IF IsWordBoundary(s, i)
    THEN SpokenLocal(<< "at" >>, << "dot" >>, s, i, RunEnd(s, i, "local"))
    ELSE Null

\* fullTranscriptText.match(spokenEmailRegex), rebuilt as `${1}@${2}.${3}`
matchAtDotEmailRegex(s) ==
    IF \E i \in 1..Len(s) : atDotEmailRegexAt(s, i) # Null
    THEN atDotEmailRegexAt(s, Leftmost({ i \in 1..Len(s) : atDotEmailRegexAt(s, i) # Null }))
    ELSE Null

extractEmail(text) ==
    OrElse(matchEmailRegex(text), matchSpokenEmailRegex(text))

(***************************************************************************)
(* Phrase lists of the source                                              *)
(***************************************************************************)

humanRequestPhrases ==
    { "speak to agent", "talk to human", "real person", "speak with someone",
      "human agent", "transfer me", "connect me to", "speak to a human",
      "talk to a person", "speak with a representative",
      "connect me with someone", "need a human", "want to talk to a human",
      "agent please", "representative", "speak to support", "talk to support",
      "human support", "need help from a person", "can i speak to",
      "can i talk to", "talk to your humans", "talk to humans",
      "speak with humans", "connect to a human", "human operator",
      "live agent", "live person", "actual person", "talk to someone else",
      "speak to someone else", "get me a human", "i want a human",
      "human please" }

noMatchPhrases ==
    { "I don't have specific information",
      "I'll have a support specialist follow up",
      "would you like me to connect you with a support specialist",
      "I don't have that information in my knowledge base" }

\* the phrases tested on AI responses inside checkAndHandleCallForwarding
aiForwardingPhrases ==
    { "human agent", "support specialist", "transfer you", "connect you",
      "prefer to speak with a human" }

\* keywords of the Whisper continuation
humanAgentKeywords ==
    { "human", "agent", "person", "representative", "support", "specialist",
      "talk to", "speak to", "connect me", "transfer me", "real person" }

forwardingPhrases ==
    { "connect you with a support specialist", "transfer you to a human agent",
      "connect you with a human", "transfer your call",
      "speak with a representative", "connect you with an agent",
      "transfer you to a specialist", "put you in touch with our support team",
      "escalate this to our support team", "have a support agent contact you",
      "I'll connect you with a support", "I'll transfer you to",
      "let me transfer you", "I'll get a human agent",
      "I'll have someone assist you", "support specialist follow up with you",
      "have a support specialist follow up", "can't forward you directly",
      "prefer to speak with a human agent", "would like to speak with a human",
      "understand you'd like to speak with a human" }

cannotHelpPhrases ==
    { "I don't have that information", "I don't have access to",
      "I'm unable to assist with", "I can't access your account",
      "I don't have the ability to", "that's beyond my capabilities",
      "I'm not able to help with", "would require human assistance",
      "I don't have specific information", "I don't have enough information",
      "I cannot access your personal", "I don't have access to your specific",
      "I cannot view your account", "I'm not able to see your",
      "I cannot perform that action", "I'm limited in what I can do",
      "I cannot make changes to your account",
      "I don't have the authorization to" }

routineConversationPhrases ==
    { "provide your email", "may I have your email",
      "could you share your email", "what's your email", "what is your email",
      "could I get your email", "can I get your email", "follow up if needed",
      "for our records", "to keep you updated", "to send you updates",
      "to contact you later", "to send you a confirmation",
      "is there anything else", "can I help you with anything else",
      "is there something else",
      "would you like me to help with anything else",
      "do you have any other questions",
      "is there anything else you'd like to know" }

kbIndicatorPhrases ==
    { "according to our knowledge base", "based on our information",
      "our documentation states", "our records show",
      "our knowledge base indicates", "according to our documentation",
      "our support documentation", "our help center", "our support articles",
      "our guide explains", "our FAQ states",
      "as mentioned in our documentation", "as outlined in our guide",
      "as described in our help center" }

\* the phrases of the hasNegativeResponse fallback of the conversation analysis
negativeResponsePhrases ==
    { "not working", "doesn't work", "didn't work", "doesn't help", "didn't help",
      "still have", "still not", "not what i", "not correct" }

\* phrases.some(phrase => text.toLowerCase().includes(phrase.toLowerCase()))
SomePhraseCI(text, phrases) ==
    LET lower == toLowerCase(text)
    IN  \E phrase \in phrases : includes(lower, toLowerCase(phrase))

(***************************************************************************)
(* Text predicates of the source                                           *)
(***************************************************************************)

checkForNoKBMatch(response) == SomePhraseCI(response, noMatchPhrases)

\* the test of hasNegativeResponse on one user message (lower-cased first)
hasNegativeResponse(msg) ==
    LET lower == toLowerCase(msg)
    IN  \E phrase \in negativeResponsePhrases : includes(lower, phrase)

containsHumanAgentRequest(message) ==
    IF message = "" THEN FALSE
    ELSE LET lowerMessage == toLowerCase(message)
         IN  \E phrase \in humanRequestPhrases : includes(lowerMessage, phrase)

\* the predicate inside aiResponses.some(...) of checkAndHandleCallForwarding
aiResponseIndicatesForwarding(response) ==
    \E phrase \in aiForwardingPhrases : includes(toLowerCase(response), phrase)

\* containsHumanRequest of the Whisper continuation
whisperContainsHumanRequest(transcription) ==
    LET lowerTranscription == toLowerCase(transcription)
    IN  \E keyword \in humanAgentKeywords : includes(lowerTranscription, keyword)

(***************************************************************************)
(* Configuration and bounds                                                *)
(***************************************************************************)

\* parseInt(process.env.FORWARDING_THRESHOLD || '3', 10), environment unset
FORWARDING_THRESHOLD == 3

\* if (Date.now() - lastSpeechStartTime < 500) return
SPEECH_DEBOUNCE == 500

\* currentSpeechSegment.audioPayloads.length > 50, audioPayloads.slice(-20)
SILENCE_MIN_PAYLOADS == 50
SILENCE_WINDOW == 20

\* number of (role, text) turns the event handlers may append in one run
MaxTurns == 3

\* number of raw speech observations the event handlers may append in one run
MaxRaw == 2

\* number of calls of addToTranscript in a run of the transcript store
MaxAppends == 3

\* turns of the opening of a transcript the evaluation is applied to
MaxHead == 3

\* assistant turns in a row that may follow the opening
MaxFiller == 7

\* speech-start signals a connection is given, marks it has in its queue,
\* milliseconds that pass, and media frames sent after a speech start
MaxSignals == 2
MaxMarks == 2
MaxElapsed == 600
MaxFrames == 52

\* turns and observations of a call that is followed to its close
MaxCallTurns == 5
MaxCallRaw == 3
MaxRelayFrames == 2
MaxRelayDeltas == 2
MaxRelayTurns == 3

\* questions the conversation analysis may list as resolved, or as unresolved
MaxQuestions == 2

\* the values process.env.SUPPORT_AGENT_NUMBER takes: unset ('') or a number
AgentNumbers == { "", "+15550100" }

\* the stream identifier Twilio announces in its start message
StreamSids == { "MZ1" }

\* calls the Twilio account lists as in progress (this call and another one)
CallSids == { "CA1", "CA2" }

\* the call whose media stream the session serves, and any other call of the
\* account
OwnCall == "CA1"
OtherCall == "CA2"

\* dateCreated of the session's call, of a call made before it and of one
\* made after it
OwnCallCreated == 1
CreatedEarlier == 0
CreatedLater == 2

\* the listing of an account on which the session's call is the only one
OwnCallInProgress == << [ sid |-> OwnCall, dateCreated |-> OwnCallCreated ] >>

(***************************************************************************)
(* Utterances the two channels deliver in the model                        *)
(***************************************************************************)

UserPlain == "How do I reset my password?"
UserHuman == "I need to speak to a human"
UserNegative == "That is not what I asked"
UserNegative2 == "It is still not working"
UserPadded == " How do I reset my password? "
UserBlank == "  "
UserEmail == "My email is jane.doe@example.com thanks"
UserSpokenEmail == "It is jane at example dot com"

AiPlain == "You can reset it from the login page."
AiPlain2 == "Sure."
AiEscalate == "I'll connect you with a support specialist right away."
AiNoMatch == "I don't have specific information about that aspect of Kayako."
AiRoutine == "Is there anything else I can help with?"
AiPadded == "You can reset it from the login page. "
AiNoted == "I've noted your email as jane (at) example (dot) com. Anything else?"
AiDirect == "I will escalate this to our support team."
AiDirectRoutine == "I will escalate this to our support team. Is there anything else?"
AiCannotRoutine == "I don't have access to billing. Is there anything else?"
AiCannotKb == "I don't have access to that, but our help center may have it."
AiKb == "According to our knowledge base, you can reset it from the login page."
AiLong ==
    "You can reset your password from the login page by choosing the forgotten password link and following the steps we send."

\* transferMessage of transferCallToAgent
transferMessage ==
    "I understand you'd like to speak with a human agent. I'll connect you with a support specialist who can better assist you with this issue. Please hold while I transfer your call."

\* the Error executeCallTransfer throws when calls(callSid).fetch() fails
ErrCallNotFound(sid) == "Call " \o sid \o " not found or not accessible"

\* an error of calls(callSid).update() re-thrown by executeCallTransfer
ErrUpdateRejected == "Call is not in-progress. Cannot redirect."

TransferErrors == { ErrCallNotFound(sid) : sid \in CallSids } \cup { ErrUpdateRejected }

\* userErrorMessage built in the catch block of transferCallToAgent
userErrorMessage(errorMessage, agentNumber) ==
    LET isInvalidCallSid == \/ includes(errorMessage, "invalid CallSid")
                            \/ includes(errorMessage, "not found")
                            \/ includes(errorMessage, "does not exist")
    IN  "I'm sorry, I'm having trouble connecting you with a specialist. "
        \o (IF isInvalidCallSid
            THEN "There seems to be an issue with the call connection. "
            ELSE "")
        \o "Please try calling our support line directly at " \o agentNumber

UserTexts ==
    { UserPlain, UserHuman, UserNegative, UserNegative2, UserPadded, UserBlank,
      UserEmail, UserSpokenEmail }
AiTexts ==
    { AiPlain, AiPlain2, AiEscalate, AiNoMatch, AiRoutine, AiPadded, AiNoted, AiDirect,
      AiDirectRoutine, AiCannotRoutine, AiCannotKb, AiKb, AiLong }

\* every string a transcript entry or an event can carry in the model
TextUniverse ==
    LET carried == UserTexts \cup AiTexts \cup { "", transferMessage }
                   \cup { userErrorMessage(e, n) : e \in TransferErrors, n \in AgentNumbers }
    IN  carried \cup { trim(t) : t \in carried }

(***************************************************************************)
(* The predicates above, tabulated once over the model's strings           *)
(***************************************************************************)

trimOf == [t \in TextUniverse |-> trim(t)]
humanAgentRequestOf == [t \in TextUniverse |-> containsHumanAgentRequest(t)]
negativeResponseOf == [t \in TextUniverse |-> hasNegativeResponse(t)]
aiIndicatesForwardingOf == [t \in TextUniverse |-> aiResponseIndicatesForwarding(t)]
whisperHumanRequestOf == [t \in TextUniverse |-> whisperContainsHumanRequest(t)]
noKBMatchOf == [t \in TextUniverse |-> checkForNoKBMatch(t)]
emailOf == [t \in TextUniverse |-> extractEmail(t)]
atDotEmailOf == [t \in TextUniverse |-> matchAtDotEmailRegex(t)]

(***************************************************************************)
(* Confidence classifier                                                   *)
(***************************************************************************)

\* scores are hundredths: 0.9 is 90, 0.6 is 60
getConfidenceLevel(score) ==
    IF score > 90 THEN "high"
    ELSE IF score > 60 THEN "medium"
    ELSE "low"

\* confidence ? getConfidenceLevel(confidence) : undefined  (0 is falsy)
levelOfConfidence(confidence) ==
    IF confidence = Absent \/ confidence = Some(0)
    THEN Undefined
    ELSE getConfidenceLevel(confidence[1])

(***************************************************************************)
(* evaluateForwardingWithLLM: the textual heuristics that run before the   *)
(* external adjudicator is called                                          *)
(***************************************************************************)

\* what the heuristics return for the most recent AI response:
\* "forward", "noForward", or "ask" when the chat completion has to decide
\* the heuristics with the routine and knowledge-base tests made before, and
\* without regard to, the cannot-help test
classifyRoutineFirst(lastAIResponse) ==
    LET directForwardingIndicated == SomePhraseCI(lastAIResponse, forwardingPhrases)
        aiCannotHelp == SomePhraseCI(lastAIResponse, cannotHelpPhrases)
        isRoutineConversation == SomePhraseCI(lastAIResponse, routineConversationPhrases)
        isUsingKnowledgeBase == SomePhraseCI(lastAIResponse, kbIndicatorPhrases)
    IN  IF directForwardingIndicated THEN "forward"
        ELSE IF isRoutineConversation \/ isUsingKnowledgeBase THEN "noForward"
        ELSE IF aiCannotHelp THEN "forward"
        ELSE IF Len(lastAIResponse) > 100 THEN "noForward"
        ELSE "ask"

classifyLastAIResponse(lastAIResponse) ==
    LET directForwardingIndicated == SomePhraseCI(lastAIResponse, forwardingPhrases)
        aiCannotHelp == SomePhraseCI(lastAIResponse, cannotHelpPhrases)
        isRoutineConversation == SomePhraseCI(lastAIResponse, routineConversationPhrases)
        isUsingKnowledgeBase == SomePhraseCI(lastAIResponse, kbIndicatorPhrases)
        isSubstantiveAnswer == /\ Len(lastAIResponse) > 100
                               /\ ~directForwardingIndicated
                               /\ ~aiCannotHelp
    IN  IF directForwardingIndicated THEN "forward"
        ELSE IF isRoutineConversation /\ ~directForwardingIndicated /\ ~aiCannotHelp
             THEN "noForward"
        ELSE IF isUsingKnowledgeBase /\ ~directForwardingIndicated /\ ~aiCannotHelp
             THEN "noForward"
        ELSE IF aiCannotHelp THEN "forward"
        ELSE IF isSubstantiveAnswer THEN "noForward"
        ELSE "ask"

classifyOf == [t \in TextUniverse |-> classifyLastAIResponse(t)]

evaluateForwardingWithLLM(transcript) ==
    LET aiResponses == FilterRole(transcript, "assistant")
    IN  IF Len(aiResponses) = 0 THEN "noForward"
        ELSE classifyOf[aiResponses[Len(aiResponses)].content]

\* what the adjudicator call can come back with
LLMOutcomes == { "true", "false", "unparseable", "failed" }

\* shouldForward of the object evaluateForwardingWithLLM resolves with:
\* result.shouldForward of the parsed JSON; false when JSON.parse throws;
\* false when the call itself throws
\* adjudicatorVerdict taking every outcome but a parsed shouldForward: false
\* for a forward verdict
verdictForwardingOnFailure(outcome) == outcome # "false"

adjudicatorVerdict(outcome) ==
    CASE outcome = "true" -> TRUE
      [] outcome = "false" -> FALSE
      [] outcome = "unparseable" -> FALSE
      [] outcome = "failed" -> FALSE

(***************************************************************************)
(* State                                                                   *)
(***************************************************************************)

VARIABLES
    ENABLE_CALL_FORWARDING, \* process.env.ENABLE_CALL_FORWARDING === 'true'
    SUPPORT_AGENT_NUMBER,   \* process.env.SUPPORT_AGENT_NUMBER || ''
    streamSid,              \* Null until Twilio's start message
    callSid,                \* Null until getCallSidFromStreamSid resolves
    sidLookup,              \* "none", "pending" or "done": the lookup started at start
    inProgress,             \* the calls twilioClient.calls.list lists as in progress
    openAiReadyState,       \* readyState of openAiWs
    conversationState,      \* transcript, rawUserInput, userDetails, kbMatchFound,
                            \* requiresHumanFollowup
    transferAttempted,      \* checkAndHandleCallForwarding.transferAttempted
    pending,                \* suspended checkAndHandleCallForwarding invocations
    transferLog,            \* one entry per invocation of transferCallToAgent
    executeLog,             \* call identifiers executeCallTransfer was invoked with
    callsMade,              \* direct applications of the function a run is about
    adjudicatorLog,         \* what each adjudicator call came back with
    closePipeline,          \* where connection.on('close') stands, and its locals
    currentSpeechSegment,   \* module-level: the speech segment being recorded
    isSpeaking,             \* module-level: whether a segment is open
    connections,            \* per connection: the barge-in and mark bookkeeping
    now,                    \* Date.now(), in units of TimeUnit milliseconds
    relay                   \* what came in and went out on the two sockets, in order

vars ==
    << ENABLE_CALL_FORWARDING, SUPPORT_AGENT_NUMBER, streamSid, callSid, sidLookup,
       inProgress,
       openAiReadyState, conversationState, transferAttempted, pending,
       transferLog, executeLog, callsMade, adjudicatorLog, closePipeline,
       currentSpeechSegment, isSpeaking, connections, now, relay >>

\* the variables of the audio path
mediaVars == << currentSpeechSegment, isSpeaking, connections, now, relay >>

\* const conversationState: ConversationState = { ... }
InitialConversationState ==
    [ transcript |-> << >>,
      rawUserInput |-> << >>,
      userDetails |-> [ hasProvidedEmail |-> FALSE, email |-> Undefined ],
      kbMatchFound |-> FALSE,
      requiresHumanFollowup |-> FALSE ]

\* The part of the session that a synchronous run of the handlers' code
\* reads and writes, as one value: the operators below take it and return it
\* the way the code leaves it. inTransfer is TRUE while transferCallToAgent
\* is appending its own assistant turn.
Session ==
    [ conversationState |-> conversationState,
      transferAttempted |-> transferAttempted,
      pending |-> pending,
      transferLog |-> transferLog,
      inTransfer |-> FALSE ]

Commit(s) ==
    /\ conversationState' = s.conversationState
    /\ transferAttempted' = s.transferAttempted
    /\ pending' = s.pending
    /\ transferLog' = s.transferLog

RemoveAt(seq, i) == SubSeq(seq, 1, i - 1) \o SubSeq(seq, i + 1, Len(seq))

(***************************************************************************)
(* Transcript store and forwarding decision engine                         *)
(***************************************************************************)

\* extractEmailFromStringArray(transcript.map(e => e.content))
RECURSIVE extractEmailFromStringArray(_)
extractEmailFromStringArray(transcript) ==
    IF transcript = << >> THEN Null
    ELSE OrElse(emailOf[Head(transcript).content],
                extractEmailFromStringArray(Tail(transcript)))

\* if (email) { userDetails.email = email; userDetails.hasProvidedEmail = true }
withEmail(userDetails, email) ==
    IF email # Null
    THEN [ userDetails EXCEPT !.email = email, !.hasProvidedEmail = TRUE ]
    ELSE userDetails

RECURSIVE addToTranscript(_, _, _, _)
RECURSIVE pushTurn(_, _, _, _)
RECURSIVE checkAndHandleCallForwarding(_)
RECURSIVE scanRecentTurns(_)
RECURSIVE adjudicate(_, _, _)
RECURSIVE decideForwarding(_, _, _)
RECURSIVE transferCallToAgent(_, _, _)

\* if (role === 'user') conversationState.rawUserInput.push({ ..., is_final: true })
pushRawUserInput(s, role, content, confidence) ==
    IF role = "user"
    THEN [ s EXCEPT !.conversationState.rawUserInput =
             Append(@, [ content |-> trimOf[content], confidence |-> confidence,
                         level |-> levelOfConfidence(confidence), is_final |-> TRUE ]) ]
    ELSE s

\* lastEntry && lastEntry.role === role && lastEntry.content === content.trim()
isDuplicateTurn(s, role, content) ==
    LET transcript == s.conversationState.transcript
    IN  /\ Len(transcript) > 0
        /\ transcript[Len(transcript)].role = role
        /\ transcript[Len(transcript)].content = trimOf[content]

\* addToTranscript from conversationState.transcript.push(...) on: the email
\* scan and, for an assistant turn of a started stream, the forwarding check
pushTurn(s, role, content, confidence) ==
    LET cs == s.conversationState
        transcript == Append(cs.transcript,
                             [ role |-> role, content |-> trimOf[content],
                               confidence |-> confidence,
                               level |-> levelOfConfidence(confidence) ])
        userDetails ==
            IF role = "user" /\ ~cs.userDetails.hasProvidedEmail
            THEN withEmail(cs.userDetails, extractEmailFromStringArray(transcript))
            ELSE cs.userDetails
        appended == [ s EXCEPT !.conversationState =
                        [ cs EXCEPT !.transcript = transcript,
                                    !.userDetails = userDetails ] ]
    IN  IF role = "assistant" /\ streamSid # Null
        THEN checkAndHandleCallForwarding(appended)
        ELSE appended

\* addToTranscript with the raw observation pushed after the duplicate test
addSkippingRawOfDuplicate(s, role, content, confidence) ==
    IF trimOf[content] = "" THEN s
    ELSE IF isDuplicateTurn(s, role, content) THEN s
    ELSE pushTurn(pushRawUserInput(s, role, content, confidence),
                  role, content, confidence)

\* function addToTranscript(role, content, confidence?)
addToTranscript(s, role, content, confidence) ==
    IF trimOf[content] = "" THEN s
    ELSE IF isDuplicateTurn(pushRawUserInput(s, role, content, confidence), role, content)
         THEN pushRawUserInput(s, role, content, confidence)
         ELSE pushTurn(pushRawUserInput(s, role, content, confidence),
                       role, content, confidence)

\* a scan that looks at the last turn only
lastTurnOnly(s) == SliceLast(s.conversationState.transcript, 1)

\* conversationState.transcript.slice(-7)
recentTurns(s) == SliceLast(s.conversationState.transcript, 7)

\* const explicitRequest = lastUserMessages.some(msg => containsHumanAgentRequest(msg))
explicitRequestIn(recent) ==
    \E i \in DOMAIN recent :
        recent[i].role = "user" /\ humanAgentRequestOf[recent[i].content]

\* const aiIndicatesForwarding = lastAIMessages.some(msg => ...)
aiIndicatesForwardingIn(recent) ==
    \E i \in DOMAIN recent :
        recent[i].role = "assistant" /\ aiIndicatesForwardingOf[recent[i].content]

\* what a run of checkAndHandleCallForwarding carries across its awaits, with
\* what the run found when it started
newEvaluation(s, explicitRequest) ==
    [ pc |-> "start",
      explicitRequest |-> explicitRequest,
      nested |-> s.inTransfer,
      afterAttempt |-> \E i \in DOMAIN s.transferLog : s.transferLog[i].callSid = callSid,
      callSid |-> Null,
      error |-> Null,
      invocation |-> 0 ]

\* if (!shouldForward && transcript.length >= FORWARDING_THRESHOLD)
\*     shouldForward = await evaluateForwardingWithLLM(transcript, ...)
\* up to the first suspension (the adjudicator call, or the pause inside
\* transferCallToAgent) or the return
adjudicate(s, evaluation, shouldForward) ==
    IF ~shouldForward /\ Len(s.conversationState.transcript) >= FORWARDING_THRESHOLD
    THEN LET result == evaluateForwardingWithLLM(s.conversationState.transcript)
         IN  IF result = "ask"
             THEN [ s EXCEPT !.pending = Append(@, [ evaluation EXCEPT !.pc = "llm" ]) ]
             ELSE decideForwarding(s, evaluation, result = "forward")
    ELSE decideForwarding(s, evaluation, shouldForward)

\* scanRecentTurns with a rule the code does not have: two user turns in a
\* row with a negative-sentiment phrase forward at once
scanWithRepeatedFailureRule(s) ==
    LET users == FilterRole(s.conversationState.transcript, "user")
        repeatedFailure ==
            \E i \in DOMAIN users :
                /\ i + 1 \in DOMAIN users
                /\ negativeResponseOf[users[i].content]
                /\ negativeResponseOf[users[i + 1].content]
    IN  adjudicate(s, newEvaluation(s, explicitRequestIn(recentTurns(s))),
                   \/ explicitRequestIn(recentTurns(s))
                   \/ aiIndicatesForwardingIn(recentTurns(s))
                   \/ repeatedFailure)

\* checkAndHandleCallForwarding past its two early returns: the scans of the
\* recent turns, then the adjudicator fallback and the decision
scanRecentTurns(s) ==
    adjudicate(s, newEvaluation(s, explicitRequestIn(recentTurns(s))),
               explicitRequestIn(recentTurns(s)) \/ aiIndicatesForwardingIn(recentTurns(s)))

\* checkAndHandleCallForwarding without its return on
\* transferAttempted === callSid
checkIgnoringAttempt(s) ==
    IF ~ENABLE_CALL_FORWARDING THEN s ELSE scanRecentTurns(s)

\* async function checkAndHandleCallForwarding()
checkAndHandleCallForwarding(s) ==
    IF ~ENABLE_CALL_FORWARDING THEN s
    ELSE IF s.transferAttempted = callSid /\ callSid # Null THEN s
    ELSE scanRecentTurns(s)

\* decideForwarding without the knowledge-base veto
decideWithoutVeto(s, evaluation, shouldForward) ==
    IF ~shouldForward THEN s
    ELSE IF callSid = Null THEN s
    ELSE IF streamSid = Null THEN s
    ELSE transferCallToAgent([ s EXCEPT !.transferAttempted = callSid ],
                             evaluation, callSid)

\* decideForwarding with a veto that an explicit request does not lift
decideVetoingExplicit(s, evaluation, shouldForward) ==
    IF ~shouldForward \/ s.conversationState.kbMatchFound THEN s
    ELSE IF callSid = Null THEN s
    ELSE IF streamSid = Null THEN s
    ELSE transferCallToAgent([ s EXCEPT !.transferAttempted = callSid ],
                             evaluation, callSid)

\* decideForwarding with the attempt recorded after transferCallToAgent has
\* been called, not before
decideThenRecord(s, evaluation, shouldForward) ==
    LET vetoed == /\ shouldForward
                  /\ s.conversationState.kbMatchFound
                  /\ ~evaluation.explicitRequest
    IN  IF ~shouldForward \/ vetoed THEN s
        ELSE IF callSid = Null THEN s
        ELSE IF streamSid = Null THEN s
        ELSE [ transferCallToAgent(s, evaluation, callSid)
                 EXCEPT !.transferAttempted = callSid ]

\* checkAndHandleCallForwarding from the knowledge-base veto on: the part that
\* runs once shouldForward is known
decideForwarding(s, evaluation, shouldForward) ==
    LET vetoed == /\ shouldForward
                  /\ s.conversationState.kbMatchFound
                  /\ ~evaluation.explicitRequest
    IN  IF ~shouldForward \/ vetoed THEN s
        ELSE IF callSid = Null THEN s
        ELSE IF streamSid = Null THEN s
        ELSE transferCallToAgent([ s EXCEPT !.transferAttempted = callSid ],
                                 evaluation, callSid)

\* a transfer called as if skipAcknowledgment were true
transferSkippingAcknowledgment(s, evaluation, sid) ==
    [ s EXCEPT
        !.transferLog = Append(@, [ callSid |-> sid,
                                    explicitRequest |-> evaluation.explicitRequest,
                                    nested |-> evaluation.nested,
                                    afterAttempt |-> evaluation.afterAttempt,
                                    guardSet |-> s.transferAttempted = sid,
                                    calls |-> << >>,
                                    outcome |-> "running" ]),
        !.pending = Append(@, [ evaluation EXCEPT !.pc = "pause", !.callSid = sid,
                                                  !.invocation = Len(s.transferLog) + 1 ]) ]

\* transferCallToAgent(openAiWs, callSid, streamSid, conversationState,
\* addToTranscript) up to its two-second pause; isSpeaking and
\* skipAcknowledgment are not passed by the caller
transferCallToAgent(s, evaluation, sid) ==
    LET invoked ==
            [ s EXCEPT !.transferLog =
                         Append(@, [ callSid |-> sid,
                                     explicitRequest |-> evaluation.explicitRequest,
                                     nested |-> evaluation.nested,
                                     afterAttempt |-> evaluation.afterAttempt,
                                     guardSet |-> s.transferAttempted = sid,
                                     calls |-> << >>,
                                     outcome |-> "running" ]),
                       !.inTransfer = TRUE ]
        acknowledged == addToTranscript(invoked, "assistant", transferMessage, Absent)
    IN  [ acknowledged EXCEPT
            !.inTransfer = s.inTransfer,
            !.pending = Append(@, [ evaluation EXCEPT !.pc = "pause", !.callSid = sid,
                                                      !.invocation = Len(s.transferLog) + 1 ]) ]

\* let currentSpeechSegment: SpeechSegment | null = null; a segment is held
\* as << segment >>
NoSegment == << >>

(***************************************************************************)
(* Telephony channel                                                       *)
(***************************************************************************)

\* connection.on('message'), data.event === 'start'; Twilio sends one start
\* message per stream
TwilioStart(sid) ==
    /\ closePipeline.pc = "idle"
    /\ streamSid = Null
    /\ streamSid' = sid
    /\ sidLookup' = "pending"
    /\ UNCHANGED << inProgress, closePipeline, mediaVars, ENABLE_CALL_FORWARDING,
                    SUPPORT_AGENT_NUMBER, callSid,
                    openAiReadyState, conversationState, transferAttempted, pending,
                    transferLog, executeLog, callsMade, adjudicatorLog >>

\* getCallSidFromStreamSid(streamSid).then(sid => { if (sid) callSid = sid })
\* sid is Null when no call is listed or the listing fails
CallSidLookupDone(sid) ==
    /\ sidLookup = "pending"
    /\ sidLookup' = "done"
    /\ callSid' = IF sid # Null THEN sid ELSE callSid
    /\ UNCHANGED << inProgress, closePipeline, mediaVars, ENABLE_CALL_FORWARDING,
                    SUPPORT_AGENT_NUMBER, streamSid,
                    openAiReadyState, conversationState, transferAttempted, pending,
                    transferLog, executeLog, callsMade, adjudicatorLog >>

\* processAudioWithWhisper(bufferToProcess).then(transcription => ...), started
\* by a media message; transcription is "" (falsy) or a text
WhisperResult(transcription) ==
    /\ streamSid # Null
    /\ LET containsHumanRequest == whisperHumanRequestOf[transcription]
           confidence == IF containsHumanRequest THEN Some(95) ELSE Some(80)
           added == addToTranscript(Session, "user", transcription, confidence)
       IN  IF transcription = "" THEN Commit(Session)
           ELSE IF containsHumanRequest
                THEN Commit(checkAndHandleCallForwarding(added))
                ELSE Commit(added)
    /\ UNCHANGED << inProgress, closePipeline, mediaVars, ENABLE_CALL_FORWARDING,
                    SUPPORT_AGENT_NUMBER, streamSid, callSid,
                    sidLookup, openAiReadyState, executeLog, callsMade, adjudicatorLog >>

(***************************************************************************)
(* AI backend channel                                                      *)
(***************************************************************************)

\* openAiWs.on('open'); the timer the handler sets is kept in relay, which
\* is for the specification to say
OpenAiOpen ==
    /\ openAiReadyState = "CONNECTING"
    /\ openAiReadyState' = "OPEN"
    /\ UNCHANGED << inProgress, closePipeline, currentSpeechSegment, isSpeaking, connections, now,
                    ENABLE_CALL_FORWARDING, SUPPORT_AGENT_NUMBER, streamSid, callSid,
                    sidLookup, conversationState, transferAttempted, pending,
                    transferLog, executeLog, callsMade, adjudicatorLog >>

\* openAiWs.on('close'): the handler only logs
OpenAiClose ==
    /\ openAiReadyState = "OPEN"
    /\ openAiReadyState' = "CLOSED"
    /\ UNCHANGED << inProgress, closePipeline, mediaVars, ENABLE_CALL_FORWARDING,
                    SUPPORT_AGENT_NUMBER, streamSid, callSid,
                    sidLookup, conversationState, transferAttempted, pending,
                    transferLog, executeLog, callsMade, adjudicatorLog >>

\* the level computed inline in the speech.phrase branch (0.8 / 0.5)
phraseLevel(confidence) ==
    IF confidence = Absent \/ confidence = Some(0) THEN Undefined
    ELSE IF confidence[1] > 80 THEN "high"
    ELSE IF confidence[1] > 50 THEN "medium"
    ELSE "low"

\* openAiWs.on('message'), response.type === 'speech.phrase'
SpeechPhrase(text, confidence, isFinal) ==
    /\ openAiReadyState = "OPEN"
    /\ text # ""
    /\ LET observed ==
               [ Session EXCEPT !.conversationState.rawUserInput =
                   Append(@, [ content |-> text, confidence |-> confidence,
                               level |-> phraseLevel(confidence),
                               is_final |-> isFinal ]) ]
       IN  IF isFinal
           THEN Commit(addToTranscript(observed, "user", text, confidence))
           ELSE Commit(observed)
    /\ currentSpeechSegment' =
           IF currentSpeechSegment # NoSegment
           THEN << [ currentSpeechSegment[1] EXCEPT
                       !.transcription = text,
                       !.confidence = IF confidence = Absent THEN 0 ELSE confidence[1],
                       !.isFinal = isFinal ] >>
           ELSE currentSpeechSegment
    /\ UNCHANGED << inProgress, closePipeline, isSpeaking, connections, now, relay,
                    ENABLE_CALL_FORWARDING, SUPPORT_AGENT_NUMBER, streamSid, callSid,
                    sidLookup, openAiReadyState, executeLog, callsMade, adjudicatorLog >>

\* openAiWs.on('message'), response.type === 'response.text' or
\* 'response.audio_transcript.done'; text is response.text || response.transcript
AIResponse(type, text, confidence) ==
    /\ openAiReadyState = "OPEN"
    /\ type \in { "response.text", "response.audio_transcript.done" }
    /\ LET transcript == conversationState.transcript
           isDuplicate ==
               /\ Len(transcript) > 0
               /\ transcript[Len(transcript)].role = "assistant"
               /\ transcript[Len(transcript)].content = text
       IN  IF text # "" /\ ~isDuplicate
           THEN Commit(addToTranscript(Session, "assistant", text, confidence))
           ELSE Commit(Session)
    /\ UNCHANGED << inProgress, closePipeline, mediaVars, ENABLE_CALL_FORWARDING,
                    SUPPORT_AGENT_NUMBER, streamSid, callSid,
                    sidLookup, openAiReadyState, executeLog, callsMade, adjudicatorLog >>

(***************************************************************************)
(* Continuations of a suspended forwarding evaluation                      *)
(***************************************************************************)

\* the session with the evaluation at index i taken out of the suspended ones
Resumed(i) == [ Session EXCEPT !.pending = RemoveAt(@, i) ]

\* await evaluateForwardingWithLLM(...) resumes: the chat completion came
\* back, or failed
LLMReturns(i, outcome) ==
    /\ i \in DOMAIN pending
    /\ pending[i].pc = "llm"
    /\ Commit(decideForwarding(Resumed(i), pending[i], adjudicatorVerdict(outcome)))
    /\ adjudicatorLog' = Append(adjudicatorLog, outcome)
    /\ UNCHANGED << inProgress, closePipeline, mediaVars, ENABLE_CALL_FORWARDING,
                    SUPPORT_AGENT_NUMBER, streamSid, callSid,
                    sidLookup, openAiReadyState, executeLog, callsMade >>

\* the log with a call of executeCallTransfer(sid) put down for the invocation
called(log, invocation, sid) == [ log EXCEPT ![invocation].calls = Append(@, sid) ]

\* the two-second pause of transferCallToAgent ends: executeCallTransfer(callSid)
PauseElapsed(i) ==
    /\ i \in DOMAIN pending
    /\ pending[i].pc = "pause"
    /\ pending' = [ pending EXCEPT ![i].pc = "execute" ]
    /\ executeLog' = Append(executeLog, pending[i].callSid)
    /\ transferLog' = called(transferLog, pending[i].invocation, pending[i].callSid)
    /\ UNCHANGED << inProgress, closePipeline, mediaVars, ENABLE_CALL_FORWARDING,
                    SUPPORT_AGENT_NUMBER, streamSid, callSid,
                    sidLookup, openAiReadyState, conversationState, transferAttempted,
                    callsMade, adjudicatorLog >>

\* transferCallToAgent has returned: conversationState.requiresHumanFollowup = true
transferReturned(s) ==
    [ s EXCEPT !.conversationState.requiresHumanFollowup = TRUE ]

\* how the invocation has ended: "transferred" when executeCallTransfer
\* resolved, "gaveUp" when the outer catch block ran
settled(s, invocation, outcome) ==
    [ s EXCEPT !.transferLog[invocation].outcome = outcome ]

\* a catch block that logs the error and tells the caller nothing
transferFailedSilently(s, evaluation, errorMessage) ==
    transferReturned(settled(s, evaluation.invocation, "gaveUp"))

\* the outer catch block of transferCallToAgent, then its return
transferFailed(s, evaluation, errorMessage) ==
    LET apologised ==
            IF openAiReadyState = "OPEN"
            THEN addToTranscript([ s EXCEPT !.inTransfer = TRUE ], "assistant",
                                 userErrorMessage(errorMessage, SUPPORT_AGENT_NUMBER),
                                 Absent)
            ELSE s
    IN  transferReturned(settled([ apologised EXCEPT !.inTransfer = s.inTransfer ],
                                 evaluation.invocation, "gaveUp"))

\* executeCallTransfer resolved (the redirect, or its alternative outbound
\* call to the agent, went through)
ExecuteReturns(i) ==
    /\ i \in DOMAIN pending
    /\ pending[i].pc \in { "execute", "retry" }
    /\ Commit(transferReturned(settled(Resumed(i), pending[i].invocation,
                                        "transferred")))
    /\ UNCHANGED << inProgress, closePipeline, mediaVars, ENABLE_CALL_FORWARDING,
                    SUPPORT_AGENT_NUMBER, streamSid, callSid,
                    sidLookup, openAiReadyState, executeLog, callsMade, adjudicatorLog >>

\* the first executeCallTransfer threw: getCallSidFromStreamSid(streamSid)
ExecuteThrows(i, errorMessage) ==
    /\ i \in DOMAIN pending
    /\ pending[i].pc = "execute"
    /\ pending' = [ pending EXCEPT ![i].pc = "refresh", ![i].error = errorMessage ]
    /\ UNCHANGED << inProgress, closePipeline, mediaVars, ENABLE_CALL_FORWARDING,
                    SUPPORT_AGENT_NUMBER, streamSid, callSid,
                    sidLookup, openAiReadyState, conversationState, transferAttempted,
                    transferLog, executeLog, callsMade, adjudicatorLog >>

\* getCallSidFromStreamSid resolved with freshCallSid (Null when none)
RefreshReturns(i, freshCallSid) ==
    /\ i \in DOMAIN pending
    /\ pending[i].pc = "refresh"
    /\ IF freshCallSid # Null /\ freshCallSid # pending[i].callSid
       THEN /\ pending' = [ pending EXCEPT ![i].pc = "retry" ]
            /\ executeLog' = Append(executeLog, freshCallSid)
            /\ transferLog' = called(transferLog, pending[i].invocation, freshCallSid)
            /\ UNCHANGED << conversationState, transferAttempted >>
       ELSE /\ Commit(transferFailed(Resumed(i), pending[i], pending[i].error))
            /\ UNCHANGED executeLog
    /\ UNCHANGED << inProgress, closePipeline, mediaVars, ENABLE_CALL_FORWARDING,
                    SUPPORT_AGENT_NUMBER, streamSid, callSid,
                    sidLookup, openAiReadyState, callsMade, adjudicatorLog >>

\* a transfer that resolves the identifier again whenever a retry throws
RetryThrowsRetrying(i, errorMessage) ==
    /\ i \in DOMAIN pending
    /\ pending[i].pc = "retry"
    /\ pending' = [ pending EXCEPT ![i].pc = "refresh", ![i].error = errorMessage,
                                   ![i].callSid = executeLog[Len(executeLog)] ]
    /\ UNCHANGED << inProgress, closePipeline, mediaVars, ENABLE_CALL_FORWARDING,
                    SUPPORT_AGENT_NUMBER, streamSid, callSid,
                    sidLookup, openAiReadyState, conversationState, transferAttempted,
                    transferLog, executeLog, callsMade, adjudicatorLog >>

\* the retried executeCallTransfer(freshCallSid) threw
RetryThrows(i, errorMessage) ==
    /\ i \in DOMAIN pending
    /\ pending[i].pc = "retry"
    /\ Commit(transferFailed(Resumed(i), pending[i], errorMessage))
    /\ UNCHANGED << inProgress, closePipeline, mediaVars, ENABLE_CALL_FORWARDING,
                    SUPPORT_AGENT_NUMBER, streamSid, callSid,
                    sidLookup, openAiReadyState, executeLog, callsMade, adjudicatorLog >>

(***************************************************************************)
(* The audio path: speech segments, barge-in and marks                     *)
(***************************************************************************)

\* the connection whose transcript and close pipeline the variables above
\* describe, and a second call the same process serves at the same time
Connections == { "this", "other" }
OtherStreamSid == "MZ2"
streamSidOf(c) == IF c = "this" THEN streamSid ELSE OtherStreamSid

\* Date.now() when the connections are accepted, in milliseconds
ConnectedAt == 1000

\* the variables a connection handler declares for the audio path; the last
\* five fields record what the handlers were given and did: the speech-start
\* signals and mark messages received so far, the media frames received since
\* the connection last allocated a segment and how many of them, counted from
\* the latest back, were silence (up to SILENCE_WINDOW), and what the last
\* handler run on the connection allocated and sent, in order
InitialConnection ==
    [ latestMediaTimestamp |-> 0,
      lastAssistantItem |-> Null,
      markQueue |-> << >>,
      responseStartTimestampTwilio |-> Absent,
      lastSpeechStartTime |-> 0,
      signals |-> 0,
      marksReceived |-> 0,
      frames |-> 0,
      quiet |-> 0,
      effects |-> << >> ]

\* the payloads of the media frames received from Twilio and of the
\* input_audio_buffer.append commands sent to the AI backend, the deltas of
\* the response.audio.delta events received and the payloads of the media
\* commands sent to Twilio; with each command, whether a forwarding
\* evaluation was suspended when it was sent
\* backendOut is the kinds of all commands sent to the AI backend, in order,
\* and initializeSession the state of the timer of openAiWs.on('open')
NothingRelayed ==
    [ framesIn |-> << >>, appendsOut |-> << >>, deltasIn |-> << >>, mediaOut |-> << >>,
      backendOut |-> << >>, initializeSession |-> "none" ]

InitMedia ==
    /\ currentSpeechSegment = NoSegment
    /\ isSpeaking = FALSE
    /\ connections = [ c \in Connections |-> InitialConnection ]
    /\ now = ConnectedAt
    /\ relay = NothingRelayed

\* the audio path as one value, for the handlers' code to take and return:
\* the connection's own variables and the two module-level ones
Audio(c) ==
    [ connection |-> connections[c],
      currentSpeechSegment |-> currentSpeechSegment,
      isSpeaking |-> isSpeaking ]

CommitAudio(c, a) ==
    /\ connections' = [ connections EXCEPT ![c] = a.connection ]
    /\ currentSpeechSegment' = a.currentSpeechSegment
    /\ isSpeaking' = a.isSpeaking

\* currentSpeechSegment = { id: Date.now().toString(), startTime: Date.now(),
\* ... }; owner records the connection whose handler allocated it
newSpeechSegment(c) ==
    << [ id |-> now, startTime |-> now, endTime |-> Null, transcription |-> "",
         confidence |-> 0, isFinal |-> FALSE, audioPayloads |-> << >>, owner |-> c ] >>

\* function sendMark(ws, sSid)
sendMark(connection, sSid) ==
    IF sSid # Null
    THEN [ connection EXCEPT !.effects = Append(@, [ kind |-> "mark" ]),
                             !.markQueue = Append(@, "responsePart") ]
    ELSE connection

\* handleSpeechStartedEvent() leaving the assistant's item alone
bargeInWithoutTruncate(c, a) ==
    [ a EXCEPT !.connection.lastSpeechStartTime = now,
               !.connection.effects = << [ kind |-> "segment", id |-> now ] >>,
               !.connection.frames = 0,
               !.connection.quiet = 0,
               !.isSpeaking = TRUE,
               !.currentSpeechSegment = newSpeechSegment(c) ]

\* handleSpeechStartedEvent() from the debounce test on
bargeIn(c, a) ==
    LET item == a.connection.lastAssistantItem
        allocated ==
            [ a EXCEPT !.connection.lastSpeechStartTime = now,
                       !.connection.effects = << [ kind |-> "segment", id |-> now ] >>,
                       !.connection.frames = 0,
                       !.connection.quiet = 0,
                       !.isSpeaking = TRUE,
                       !.currentSpeechSegment = newSpeechSegment(c) ]
        truncate == [ kind |-> "truncate", item_id |-> item, content_index |-> 0,
                      audio_end_ms |-> 0 ]
    IN  IF item # Null
        THEN [ allocated EXCEPT
                 !.connection.lastAssistantItem = Null,
                 !.connection.effects =
                     IF streamSidOf(c) # Null
                     THEN @ \o << truncate, [ kind |-> "clear" ] >>
                     ELSE @ \o << truncate >> ]
        ELSE allocated

\* handleSpeechStartedEvent() without its debounce test
bargeInUndebounced(c, a) == bargeIn(c, a)

\* function handleSpeechStartedEvent()
handleSpeechStartedEvent(c, a) ==
    IF now - a.connection.lastSpeechStartTime < SPEECH_DEBOUNCE THEN a ELSE bargeIn(c, a)

\* function handleSpeechEndedEvent(): the note pushed to rawUserInput unless an
\* observation arrived while the segment was open is not part of this value
handleSpeechEndedEvent(a) ==
    IF ~a.isSpeaking \/ a.currentSpeechSegment = NoSegment THEN a
    ELSE [ a EXCEPT !.isSpeaking = FALSE, !.currentSpeechSegment = NoSegment ]

\* every byte of the payload is 0xFF
IsSilence(payload) == payload = "silence"

\* the silence test of the media branch
silenceDetected(a) ==
    /\ a.isSpeaking
    /\ a.currentSpeechSegment # NoSegment
    /\ Len(a.currentSpeechSegment[1].audioPayloads) > SILENCE_MIN_PAYLOADS
    /\ \A i \in DOMAIN a.currentSpeechSegment[1].audioPayloads :
           i > Len(a.currentSpeechSegment[1].audioPayloads) - SILENCE_WINDOW
           => IsSilence(a.currentSpeechSegment[1].audioPayloads[i])

\* openAiWs.on('message'), response.type === 'input_audio_buffer.speech_started'
SpeechStarted(c) ==
    /\ openAiReadyState = "OPEN"
    /\ CommitAudio(c, handleSpeechStartedEvent(c,
           [ Audio(c) EXCEPT !.connection.signals = @ + 1,
                             !.connection.effects = << >> ]))
    /\ UNCHANGED << inProgress, closePipeline, now, relay, ENABLE_CALL_FORWARDING, SUPPORT_AGENT_NUMBER,
                    streamSid, callSid, sidLookup, openAiReadyState, conversationState,
                    transferAttempted, pending, transferLog, executeLog, callsMade,
                    adjudicatorLog >>

\* openAiWs.on('message'), response.type === 'response.audio.delta' &&
\* response.delta; the backend answers audio it was sent, which follows
\* Twilio's start message (the session is configured with server_vad and
\* create_response). What the step adds to relay is for the specification
\* to say.
AudioDelta(c, item_id, delta) ==
    /\ openAiReadyState = "OPEN"
    /\ streamSidOf(c) # Null
    /\ delta # ""
    /\ LET connection == connections[c]
           started ==
               [ connection EXCEPT
                   !.effects = << [ kind |-> "media", payload |-> delta ] >>,
                   !.responseStartTimestampTwilio =
                       IF @ = Absent \/ @ = Some(0)
                       THEN Some(connection.latestMediaTimestamp)
                       ELSE @,
                   !.lastAssistantItem = IF item_id # Null THEN item_id ELSE @ ]
       IN  connections' = [ connections EXCEPT ![c] = sendMark(started, streamSidOf(c)) ]
    /\ UNCHANGED << inProgress, closePipeline, currentSpeechSegment, isSpeaking, now,
                    ENABLE_CALL_FORWARDING, SUPPORT_AGENT_NUMBER,
                    streamSid, callSid, sidLookup, openAiReadyState, conversationState,
                    transferAttempted, pending, transferLog, executeLog, callsMade,
                    adjudicatorLog >>

\* a forwarding evaluation is suspended at the adjudicator call, or a
\* transfer is in its pause
SuspendedAt(suspended) == \E i \in DOMAIN suspended : suspended[i].pc \in { "llm", "pause" }

\* a relay that sends every frame twice
relayTwice(payload) ==
    IF openAiReadyState = "OPEN"
    THEN << [ kind |-> "append", payload |-> payload ],
            [ kind |-> "append", payload |-> payload ] >>
    ELSE << >>

\* a relay that waits while a forwarding evaluation is suspended
relayUnlessSuspended(payload) ==
    IF openAiReadyState = "OPEN" /\ ~SuspendedAt(pending)
    THEN << [ kind |-> "append", payload |-> payload ] >>
    ELSE << >>

\* if (openAiWs.readyState === WebSocket.OPEN)
\*     openAiWs.send({ type: 'input_audio_buffer.append', audio: payload })
relayToBackend(payload) ==
    IF openAiReadyState = "OPEN"
    THEN << [ kind |-> "append", payload |-> payload ] >>
    ELSE << >>

\* connection.on('message'), data.event === 'media'; the transcription this
\* may start comes back as WhisperResult. What the step adds to relay is for
\* the specification to say.
Media(c, timestamp, payload) ==
    /\ c = "this" => closePipeline.pc = "idle"
    /\ streamSidOf(c) # Null
    /\ LET received ==
               [ Audio(c) EXCEPT
                   !.connection.latestMediaTimestamp = timestamp,
                   !.connection.frames = @ + 1,
                   !.connection.quiet =
                       IF ~IsSilence(payload) THEN 0
                       ELSE IF @ < SILENCE_WINDOW THEN @ + 1 ELSE @,
                   !.connection.effects = relayToBackend(payload) ]
       IN  IF silenceDetected(received)
           THEN CommitAudio(c, handleSpeechEndedEvent(received))
           ELSE CommitAudio(c, received)
    /\ UNCHANGED << inProgress, closePipeline, now, ENABLE_CALL_FORWARDING, SUPPORT_AGENT_NUMBER,
                    streamSid, callSid, sidLookup, openAiReadyState, conversationState,
                    transferAttempted, pending, transferLog, executeLog, callsMade,
                    adjudicatorLog >>

\* connection.on('message'), data.event === 'mark': no branch of the handler
\* takes it
MarkReceived(c) ==
    /\ c = "this" => closePipeline.pc = "idle"
    /\ connections[c].marksReceived < Len(connections[c].markQueue)
    /\ connections' = [ connections EXCEPT ![c].marksReceived = @ + 1,
                                           ![c].effects = << >> ]
    /\ UNCHANGED << inProgress, closePipeline, currentSpeechSegment, isSpeaking, now, relay,
                    ENABLE_CALL_FORWARDING, SUPPORT_AGENT_NUMBER,
                    streamSid, callSid, sidLookup, openAiReadyState, conversationState,
                    transferAttempted, pending, transferLog, executeLog, callsMade,
                    adjudicatorLog >>

\* time passes
Tick(elapsed) ==
    /\ now' = now + elapsed
    /\ UNCHANGED << inProgress, closePipeline, currentSpeechSegment, isSpeaking, connections, relay,
                    ENABLE_CALL_FORWARDING, SUPPORT_AGENT_NUMBER,
                    streamSid, callSid, sidLookup, openAiReadyState, conversationState,
                    transferAttempted, pending, transferLog, executeLog, callsMade,
                    adjudicatorLog >>

\* the kinds of the commands a handler run has sent to the AI backend
Kinds(effects) ==
    LET commands == SelectSeq(effects, LAMBDA effect : effect.kind = "append")
    IN  [ i \in DOMAIN commands |-> "input_audio_buffer.append" ]

\* the commands of the given kind among what a handler run has sent, in order
Sent(kind, effects, suspended) ==
    LET commands == SelectSeq(effects, LAMBDA effect : effect.kind = kind)
    IN  [ i \in DOMAIN commands |->
            [ payload |-> commands[i].payload, during |-> SuspendedAt(suspended) ] ]

\* the media branch, with the frame and what the handler run sent to the AI
\* backend (openAiWs.send) put on record
RelayMedia(timestamp, payload) ==
    /\ Media("this", timestamp, payload)
    /\ relay' = [ relay EXCEPT
                    !.framesIn = Append(@, payload),
                    !.appendsOut = @ \o Sent("append", connections'["this"].effects,
                                             pending),
                    !.backendOut = @ \o Kinds(connections'["this"].effects) ]

\* openAiWs.on('open') with its setTimeout(initializeSession, 100)
BackendOpen ==
    /\ OpenAiOpen
    /\ relay' = [ relay EXCEPT !.initializeSession = "scheduled" ]

\* the timer fires: initializeSession sends the session.update command (a
\* send on a socket that has closed meanwhile puts nothing on the channel)
InitializeSession ==
    /\ relay.initializeSession = "scheduled"
    /\ relay' = [ relay EXCEPT
                    !.initializeSession = "done",
                    !.backendOut = IF openAiReadyState = "OPEN"
                                   THEN Append(@, "session.update")
                                   ELSE @ ]
    /\ UNCHANGED << inProgress, closePipeline, currentSpeechSegment, isSpeaking, connections, now,
                    ENABLE_CALL_FORWARDING, SUPPORT_AGENT_NUMBER, streamSid, callSid,
                    sidLookup, openAiReadyState, conversationState, transferAttempted,
                    pending, transferLog, executeLog, callsMade, adjudicatorLog >>

\* the audio-delta branch, with the delta and what the handler run sent to
\* Twilio (connection.send) put on record
RelayDelta(item_id, delta) ==
    /\ AudioDelta("this", item_id, delta)
    /\ relay' = [ relay EXCEPT
                    !.deltasIn = Append(@, delta),
                    !.mediaOut = @ \o Sent("media", connections'["this"].effects,
                                           pending) ]

(***************************************************************************)
(* The close pipeline: connection.on('close') and createKayakoTicket       *)
(***************************************************************************)

\* the close handler has not run. mp3Exists, audioTranscript and
\* parsedTranscript are locals of the handler and of createKayakoTicket;
\* ticketPosts counts the POST requests to /cases, turnsAtClose is the length
\* of the transcript when the close event arrived
NotClosing ==
    [ pc |-> "idle", mp3Exists |-> FALSE, audioTranscript |-> Absent,
      parsedTranscript |-> << >>, ticketPosts |-> 0, turnsAtClose |-> Absent,
      ticketInfo |-> Absent ]

\* emailRegex, then the at/dot form: the extraction of generateTicketSummary
extractAtDotEmail(text) == OrElse(matchEmailRegex(text), matchAtDotEmailRegex(text))

\* message.text.match(/noted your email as\s+([^.]+)/i) at index i, its group
\* handed to the extraction of createKayakoTicket, or to the narrower one of
\* generateTicketSummary; "noted your email as" is 19 characters long
notedEmailAt(text, i, narrow) ==
    LET afterPhrase == i + 19
        spaces == RunEnd(text, afterPhrase, "space")
        group == IF RunEnd(text, spaces + 1, "notDot") > spaces
                 THEN SubSeq(text, spaces + 1, RunEnd(text, spaces + 1, "notDot"))
                 ELSE SubSeq(text, spaces, spaces)
    IN  IF /\ afterPhrase - 1 <= Len(text)
           /\ toLowerCase(SubSeq(text, i, afterPhrase - 1)) = "noted your email as"
           /\ spaces >= afterPhrase
           /\ (RunEnd(text, spaces + 1, "notDot") > spaces \/ spaces > afterPhrase)
        THEN << IF narrow THEN extractAtDotEmail(group) ELSE extractEmail(group) >>
        ELSE << >>

\* the agent-confirmation branch: text.includes("noted your email as"), the
\* regex match and the extraction from its group; Null when any of them fails
notedEmail(text, narrow) ==
    IF /\ includes(text, "noted your email as")
       /\ \E i \in 1..Len(text) : notedEmailAt(text, i, narrow) # << >>
    THEN notedEmailAt(text, Leftmost({ i \in 1..Len(text) :
                                        notedEmailAt(text, i, narrow) # << >> }),
                      narrow)[1]
    ELSE Null

notedEmailOf == [t \in TextUniverse |-> notedEmail(t, FALSE)]
summaryEmailOf == [t \in TextUniverse |-> extractAtDotEmail(t)]
notedSummaryEmailOf == [t \in TextUniverse |-> notedEmail(t, TRUE)]

\* for (const message of parsedTranscript) if (message.role === role) { email
\* = table[message.text]; if (email) break }
RECURSIVE firstEmail(_, _, _)
firstEmail(parsedTranscript, role, table) ==
    IF parsedTranscript = << >> THEN Null
    ELSE IF Head(parsedTranscript).role = role /\ table[Head(parsedTranscript).text] # Null
         THEN table[Head(parsedTranscript).text]
         ELSE firstEmail(Tail(parsedTranscript), role, table)

\* parsedTranscript.forEach(message => conversation.transcript.push({ role,
\* content: message.text, timestamp }))
parsedTurns(parsedTranscript) ==
    [ i \in 1..Len(parsedTranscript) |->
        [ role |-> IF parsedTranscript[i].role = "customer" THEN "user" ELSE "assistant",
          content |-> parsedTranscript[i].text,
          confidence |-> Absent,
          level |-> Undefined ] ]

\* adoptParsedTranscript without the test of the transcript's length
adoptParsedAlways(cs, parsedTranscript) ==
    IF Len(parsedTranscript) > 0
    THEN [ cs EXCEPT !.transcript = parsedTurns(parsedTranscript) ]
    ELSE cs

\* if (conversation.transcript.length <= 4 && parsedTranscript.length > 0)
\* the transcript becomes the parsed messages
adoptParsedTranscript(cs, parsedTranscript) ==
    IF Len(cs.transcript) <= 4 /\ Len(parsedTranscript) > 0
    THEN [ cs EXCEPT !.transcript = parsedTurns(parsedTranscript) ]
    ELSE cs

\* the spoken email of the whole audio transcript: assigned whenever it matches
adoptAudioEmail(cs, audioTranscript) ==
    IF atDotEmailOf[audioTranscript] # Null
    THEN [ cs EXCEPT !.userDetails.email = atDotEmailOf[audioTranscript],
                     !.userDetails.hasProvidedEmail = TRUE ]
    ELSE cs

\* if (parsedTranscript.length > 0 && !conversation.userDetails.email): the
\* customer messages, then the agent's confirmations
adoptParsedEmail(cs, parsedTranscript) ==
    IF Len(parsedTranscript) > 0 /\ cs.userDetails.email = Undefined
    THEN [ cs EXCEPT !.userDetails =
             withEmail(@, OrElse(firstEmail(parsedTranscript, "customer", emailOf),
                                 firstEmail(parsedTranscript, "agent", notedEmailOf))) ]
    ELSE cs

\* createKayakoTicket between parseTranscriptWithAI and generateTicketSummary
scanRecording(cs, audioTranscript, parsedTranscript) ==
    adoptParsedEmail(
        adoptParsedTranscript(adoptAudioEmail(cs, audioTranscript), parsedTranscript),
        parsedTranscript)

\* ticketInfo.email of generateTicketSummary
ticketEmail(cs, parsedTranscript) ==
    IF cs.userDetails.email # Undefined THEN cs.userDetails.email
    ELSE OrElse(OrElse(firstEmail(parsedTranscript, "customer", summaryEmailOf),
                       firstEmail(parsedTranscript, "agent", notedSummaryEmailOf)),
                extractEmailFromStringArray(cs.transcript))

\* content.split(/[.!?]+/): the pieces of a message between its runs of
\* sentence ends, by the positions where they start and end (the empty
\* pieces at the two ends of a message are dropped by the filter that follows)
IsSentenceEnd(c) == c \in { ".", "!", "?" }

StartsSentence(content, i) ==
    /\ ~IsSentenceEnd(SubSeq(content, i, i))
    /\ i = 1 \/ IsSentenceEnd(SubSeq(content, i - 1, i - 1))

SentenceFrom(content, i) ==
    LET last == CHOOSE j \in i..Len(content) :
                    /\ \A k \in i..j : ~IsSentenceEnd(SubSeq(content, k, k))
                    /\ j = Len(content) \/ IsSentenceEnd(SubSeq(content, j + 1, j + 1))
    IN  SubSeq(content, i, last)

\* trimmed.split(' ')[0]
firstWord(trimmed) ==
    LET space == CHOOSE n \in 1..(Len(trimmed) + 1) :
                     /\ n = Len(trimmed) + 1 \/ SubSeq(trimmed, n, n) = " "
                     /\ \A k \in 1..(n - 1) : SubSeq(trimmed, k, k) # " "
    IN  SubSeq(trimmed, 1, space - 1)

questionWords ==
    { "how", "what", "why", "where", "when", "who", "can", "could", "would", "is",
      "are", "do", "does" }
questionPhrases ==
    { "tell me about", "i need to know", "i want to know", "explain", "help me with" }

\* the three tests extractUserQuestions makes on a sentence
isQuestion(sentence) ==
    LET trimmed == trim(sentence)
    IN  /\ Len(trimmed) > 0
        /\ \/ includes(trimmed, "?")
           \/ toLowerCase(firstWord(trimmed)) \in questionWords
           \/ \E phrase \in questionPhrases : includes(toLowerCase(trimmed), phrase)

\* the number of questions extractUserQuestions takes from one user message
questionsIn(content) ==
    Cardinality({ i \in 1..Len(content) :
                    /\ StartsSentence(content, i)
                    /\ isQuestion(SentenceFrom(content, i)) })

questionsOf == [t \in TextUniverse |-> questionsIn(t)]

\* extractUserQuestions(conversation.transcript).length
RECURSIVE extractUserQuestions(_)
extractUserQuestions(transcript) ==
    IF transcript = << >> THEN 0
    ELSE (IF Head(transcript).role = "user" THEN questionsOf[Head(transcript).content]
          ELSE 0)
         + extractUserQuestions(Tail(transcript))

\* what analyzeConversationResolution returns without asking: no question, or
\* a transcript of fewer than two entries
NothingToAnalyse ==
    [ resolvedQuestions |-> 0, unresolvedQuestions |-> 0,
      hasPositiveAcknowledgment |-> FALSE, hasNegativeResponse |-> FALSE ]

\* analyzeConversationResolution, given the transcript generateTicketSummary
\* hands it (the parsed one for a conversation of four turns or fewer); the
\* answer is the analysis of the language model, or of the keyword fallback,
\* with the two lists of questions kept by their lengths
analyzeConversationResolution(cs, parsedTranscript, answer) ==
    LET analysed == IF Len(parsedTranscript) > 0 /\ Len(cs.transcript) <= 4
                    THEN Len(parsedTranscript)
                    ELSE Len(cs.transcript)
    IN  IF extractUserQuestions(cs.transcript) = 0 \/ analysed < 2
        THEN NothingToAnalyse
        ELSE answer

\* aiResponses.some(resp => checkForNoKBMatch(resp))
noKBMatch(cs) ==
    \E i \in DOMAIN cs.transcript :
        cs.transcript[i].role = "assistant" /\ noKBMatchOf[cs.transcript[i].content]

\* ticketInfo.requiresFollowup of generateTicketSummary
ticketRequiresFollowup(cs, analysis) ==
    \/ noKBMatch(cs)
    \/ analysis.unresolvedQuestions > 0
    \/ analysis.hasNegativeResponse
    \/ cs.requiresHumanFollowup

\* a derivation that looks at the questions and the sentiment only
ticketPriorityOfAnalysis(cs, analysis) ==
    IF analysis.unresolvedQuestions > 0 \/ noKBMatch(cs) THEN "HIGH"
    ELSE IF analysis.hasPositiveAcknowledgment THEN "LOW"
    ELSE "MEDIUM"

\* ticketInfo.priority of generateTicketSummary
ticketPriority(cs, analysis) ==
    IF ticketRequiresFollowup(cs, analysis)
    THEN IF analysis.unresolvedQuestions > 0 \/ noKBMatch(cs) THEN "HIGH" ELSE "MEDIUM"
    ELSE IF /\ analysis.resolvedQuestions > 0
            /\ analysis.unresolvedQuestions = 0
            /\ analysis.hasPositiveAcknowledgment
         THEN "LOW"
         ELSE "MEDIUM"

\* adoptTicketInfo assigning the analysis' answer to requiresHumanFollowup
adoptTicketInfoAssigning(cs, parsedTranscript, analysis) ==
    [ cs EXCEPT
        !.userDetails =
            IF ticketEmail(cs, parsedTranscript) # Null /\ @.email = Undefined
            THEN withEmail(@, ticketEmail(cs, parsedTranscript))
            ELSE @,
        !.requiresHumanFollowup =
            analysis.unresolvedQuestions > 0 \/ analysis.hasNegativeResponse ]

\* createKayakoTicket after generateTicketSummary has returned
adoptTicketInfo(cs, parsedTranscript, analysis) ==
    [ cs EXCEPT
        !.userDetails =
            IF ticketEmail(cs, parsedTranscript) # Null /\ @.email = Undefined
            THEN withEmail(@, ticketEmail(cs, parsedTranscript))
            ELSE @,
        !.requiresHumanFollowup =
            IF ticketRequiresFollowup(cs, analysis) THEN TRUE ELSE @ ]

\* the end of the close handler: nothing follows the ticket but
\* if (openAiWs.readyState === WebSocket.OPEN) openAiWs.close()
closeBackend(closing) ==
    /\ closePipeline' = [ closing EXCEPT !.pc = "done" ]
    /\ openAiReadyState' = IF openAiReadyState = "OPEN" THEN "CLOSED" ELSE openAiReadyState

\* a close handler that files a ticket only when the recording was saved
afterRecordingAbandoning(closing, mp3Exists) ==
    IF Len(conversationState.transcript) > 0 /\ mp3Exists
    THEN /\ closePipeline' = [ closing EXCEPT !.pc = "transcribe", !.mp3Exists = TRUE ]
         /\ UNCHANGED openAiReadyState
    ELSE closeBackend(closing)

\* the close handler once the recording is settled: a ticket is made of a
\* non-empty transcript; mp3Exists is mp3Path && fs.existsSync(mp3Path)
afterRecording(closing, mp3Exists) ==
    IF Len(conversationState.transcript) > 0
    THEN /\ closePipeline' = [ closing EXCEPT
                                 !.pc = IF mp3Exists THEN "transcribe" ELSE "summary",
                                 !.mp3Exists = mp3Exists ]
         /\ UNCHANGED openAiReadyState
    ELSE closeBackend(closing)

\* connection.on('close'): callRecorder exists once the stream has started
ConnectionClose ==
    /\ closePipeline.pc = "idle"
    /\ LET closing == [ closePipeline EXCEPT
                          !.turnsAtClose = Some(Len(conversationState.transcript)) ]
       IN  IF streamSid # Null
           THEN /\ closePipeline' = [ closing EXCEPT !.pc = "finishRecording" ]
                /\ UNCHANGED openAiReadyState
           ELSE afterRecording(closing, FALSE)
    /\ UNCHANGED << inProgress, mediaVars, ENABLE_CALL_FORWARDING, SUPPORT_AGENT_NUMBER,
                    streamSid,
                    callSid, sidLookup, conversationState, transferAttempted, pending,
                    transferLog, executeLog, callsMade, adjudicatorLog >>

\* await callRecorder.finishRecording() resolved with a file, or threw
RecordingFinished(mp3Exists) ==
    /\ closePipeline.pc = "finishRecording"
    /\ afterRecording(closePipeline, mp3Exists)
    /\ UNCHANGED << inProgress, mediaVars, ENABLE_CALL_FORWARDING, SUPPORT_AGENT_NUMBER,
                    streamSid,
                    callSid, sidLookup, conversationState, transferAttempted, pending,
                    transferLog, executeLog, callsMade, adjudicatorLog >>

\* transcribeAudioFile and parseTranscriptWithAI have resolved
RecordingParsed(audioTranscript, parsedTranscript) ==
    /\ closePipeline.pc = "transcribe"
    /\ closePipeline' = [ closePipeline EXCEPT !.pc = "summary",
                                               !.audioTranscript = Some(audioTranscript),
                                               !.parsedTranscript = parsedTranscript ]
    /\ conversationState' = scanRecording(conversationState, audioTranscript,
                                          parsedTranscript)
    /\ UNCHANGED << inProgress, mediaVars, ENABLE_CALL_FORWARDING, SUPPORT_AGENT_NUMBER,
                    streamSid,
                    callSid, sidLookup, openAiReadyState, transferAttempted, pending,
                    transferLog, executeLog, callsMade, adjudicatorLog >>

\* one of the two threw: the catch block logs, parsedTranscript stays []
RecordingUnreadable ==
    /\ closePipeline.pc = "transcribe"
    /\ closePipeline' = [ closePipeline EXCEPT !.pc = "summary" ]
    /\ UNCHANGED << inProgress, mediaVars, ENABLE_CALL_FORWARDING, SUPPORT_AGENT_NUMBER,
                    streamSid,
                    callSid, sidLookup, openAiReadyState, conversationState,
                    transferAttempted, pending, transferLog, executeLog, callsMade,
                    adjudicatorLog >>

\* await generateTicketSummary(conversation, parsedTranscript) has returned:
\* the ticket is built and posted, fetch(`${KAYAKO_CONFIG.baseUrl}/cases`)
TicketSummarised(answer) ==
    /\ closePipeline.pc = "summary"
    /\ LET analysis == analyzeConversationResolution(conversationState,
                                                     closePipeline.parsedTranscript,
                                                     answer)
       IN  /\ closePipeline' =
                  [ closePipeline EXCEPT
                      !.pc = "ticket",
                      !.ticketPosts = @ + 1,
                      !.ticketInfo =
                          << [ analysis |-> analysis,
                               noKBMatch |-> noKBMatch(conversationState),
                               followupFlag |-> conversationState.requiresHumanFollowup,
                               transfersStarted |-> Len(transferLog),
                               requiresFollowup |->
                                   ticketRequiresFollowup(conversationState, analysis),
                               priority |->
                                   ticketPriority(conversationState, analysis) ] >> ]
           /\ conversationState' = adoptTicketInfo(conversationState,
                                                   closePipeline.parsedTranscript,
                                                   analysis)
    /\ UNCHANGED << inProgress, mediaVars, ENABLE_CALL_FORWARDING, SUPPORT_AGENT_NUMBER,
                    streamSid,
                    callSid, sidLookup, openAiReadyState, transferAttempted, pending,
                    transferLog, executeLog, callsMade, adjudicatorLog >>

\* the POST was answered, or threw: createKayakoTicket is over
TicketFiled ==
    /\ closePipeline.pc = "ticket"
    /\ closeBackend(closePipeline)
    /\ UNCHANGED << inProgress, mediaVars, ENABLE_CALL_FORWARDING, SUPPORT_AGENT_NUMBER,
                    streamSid,
                    callSid, sidLookup, conversationState, transferAttempted, pending,
                    transferLog, executeLog, callsMade, adjudicatorLog >>

(***************************************************************************)
(* The call session                                                        *)
(***************************************************************************)

\* what the channels deliver in the session specification
SessionAiTexts == { AiPlain, AiEscalate, AiNoMatch }
SessionTranscriptions == { "", UserPlain, UserHuman }
SessionPhrases ==
    { [ text |-> UserPlain, confidence |-> Some(70), is_final |-> TRUE ],
      [ text |-> UserHuman, confidence |-> Absent, is_final |-> TRUE ],
      [ text |-> UserPlain, confidence |-> Absent, is_final |-> FALSE ] }
\* the call the listing of in-progress calls finds for the stream
ListedCallSids == { "CA1", Null }

Init ==
    /\ ENABLE_CALL_FORWARDING \in BOOLEAN
    /\ SUPPORT_AGENT_NUMBER \in AgentNumbers
    /\ streamSid = Null
    /\ callSid = Null
    /\ sidLookup = "none"
    /\ inProgress = OwnCallInProgress
    /\ openAiReadyState = "CONNECTING"
    /\ conversationState = InitialConversationState
    /\ transferAttempted = Null
    /\ pending = << >>
    /\ transferLog = << >>
    /\ executeLog = << >>
    /\ callsMade = 0
    /\ adjudicatorLog = << >>
    /\ closePipeline = NotClosing
    /\ InitMedia

\* the handlers may append while the run's bounds leave room
RoomForTurn == Len(conversationState.transcript) < MaxTurns
RoomForRaw == Len(conversationState.rawUserInput) < MaxRaw

Next ==
    \/ \E sid \in StreamSids : TwilioStart(sid)
    \/ \E sid \in ListedCallSids : CallSidLookupDone(sid)
    \/ OpenAiOpen /\ UNCHANGED relay
    \/ OpenAiClose
    \/ \E phrase \in SessionPhrases :
          RoomForTurn /\ RoomForRaw
          /\ SpeechPhrase(phrase.text, phrase.confidence, phrase.is_final)
    \/ \E type \in { "response.text", "response.audio_transcript.done" },
          text \in SessionAiTexts :
          RoomForTurn /\ AIResponse(type, text, Absent)
    \/ \E transcription \in SessionTranscriptions :
          RoomForTurn /\ RoomForRaw /\ WhisperResult(transcription)
    \/ \E i \in DOMAIN pending, outcome \in LLMOutcomes : LLMReturns(i, outcome)
    \/ \E i \in DOMAIN pending : PauseElapsed(i)
    \/ \E i \in DOMAIN pending : ExecuteReturns(i)
    \/ \E i \in DOMAIN pending, kind \in { "fetch", "update" } :
          ExecuteThrows(i, IF kind = "fetch" THEN ErrCallNotFound(pending[i].callSid)
                           ELSE ErrUpdateRejected)
    \/ \E i \in DOMAIN pending, fresh \in CallSids \cup { Null } : RefreshReturns(i, fresh)
    \/ \E i \in DOMAIN pending : RetryThrows(i, ErrUpdateRejected)

Spec == Init /\ [][Next]_vars

(***************************************************************************)
(* Answers of the conversation analysis                                    *)
(***************************************************************************)

\* every question answered and the caller content, and one question left open
AllResolved ==
    [ resolvedQuestions |-> 1, unresolvedQuestions |-> 0,
      hasPositiveAcknowledgment |-> TRUE, hasNegativeResponse |-> FALSE ]
OneUnresolved ==
    [ resolvedQuestions |-> 0, unresolvedQuestions |-> 1,
      hasPositiveAcknowledgment |-> FALSE, hasNegativeResponse |-> FALSE ]
CallAnswers == { AllResolved, OneUnresolved }

(***************************************************************************)
(* A call from the connection to the end of its close handler              *)
(***************************************************************************)

CallTranscriptions == { UserEmail, UserHuman }
CallAiTexts == { AiPlain }
\* what transcribeAudioFile and parseTranscriptWithAI make of the recording
Recordings ==
    { [ audioTranscript |-> UserPlain, parsedTranscript |-> << >> ],
      [ audioTranscript |-> UserSpokenEmail,
        parsedTranscript |-> << [ role |-> "customer", text |-> UserSpokenEmail ],
                                [ role |-> "agent", text |-> AiPlain ] >> ],
      [ audioTranscript |-> UserPlain,
        parsedTranscript |-> << [ role |-> "customer", text |-> UserPlain ],
                                [ role |-> "agent", text |-> AiNoted ] >> ] }

InitCall ==
    /\ Init
    /\ ENABLE_CALL_FORWARDING
    /\ SUPPORT_AGENT_NUMBER # ""

RoomInCall ==
    /\ Len(conversationState.transcript) < MaxCallTurns
    /\ Len(conversationState.rawUserInput) < MaxCallRaw

\* a transcription asked of Whisper for the caller's last frames comes back
\* before the call closes or while its recording is being finished
NextCall ==
    \/ \E sid \in StreamSids : TwilioStart(sid)
    \/ CallSidLookupDone("CA1")
    \/ OpenAiOpen /\ UNCHANGED relay
    \/ \E text \in CallAiTexts :
          RoomInCall /\ AIResponse("response.audio_transcript.done", text, Absent)
    \/ \E transcription \in CallTranscriptions :
          /\ RoomInCall
          /\ closePipeline.pc \in { "idle", "finishRecording" }
          /\ WhisperResult(transcription)
    \/ \E i \in DOMAIN pending, outcome \in LLMOutcomes : LLMReturns(i, outcome)
    \/ \E i \in DOMAIN pending : PauseElapsed(i)
    \/ \E i \in DOMAIN pending : ExecuteReturns(i)
    \/ \E i \in DOMAIN pending : ExecuteThrows(i, ErrUpdateRejected)
    \/ \E i \in DOMAIN pending : RefreshReturns(i, Null)
    \/ ConnectionClose
    \/ \E mp3Exists \in BOOLEAN : RecordingFinished(mp3Exists)
    \/ \E recording \in Recordings :
          RecordingParsed(recording.audioTranscript, recording.parsedTranscript)
    \/ RecordingUnreadable
    \/ \E answer \in CallAnswers : TicketSummarised(answer)
    \/ TicketFiled

SpecCall == InitCall /\ [][NextCall]_vars

(***************************************************************************)
(* Two calls served at once: speech-start signals, audio of the assistant, *)
(* media frames and mark messages of a started stream                      *)
(***************************************************************************)

\* a stream that has been started and whose backend socket is open
InitMediaStream ==
    /\ ENABLE_CALL_FORWARDING = FALSE
    /\ SUPPORT_AGENT_NUMBER = ""
    /\ streamSid \in StreamSids
    /\ callSid = "CA1"
    /\ sidLookup = "done"
    /\ inProgress = OwnCallInProgress
    /\ openAiReadyState = "OPEN"
    /\ conversationState = InitialConversationState
    /\ transferAttempted = Null
    /\ pending = << >>
    /\ transferLog = << >>
    /\ executeLog = << >>
    /\ callsMade = 0
    /\ adjudicatorLog = << >>
    /\ closePipeline = NotClosing
    /\ InitMedia

ItemIds == { "item_1", "item_2" }
MediaTimestamps == { 3000, 5000 }
TickSteps == { 100, 500 }

NextMedia ==
    \/ connections["this"].signals < MaxSignals /\ SpeechStarted("this")
    \/ connections["other"].signals < 1 /\ SpeechStarted("other")
    \/ \E item_id \in ItemIds :
          /\ connections["this"].latestMediaTimestamp > 0
          /\ Len(connections["this"].markQueue) < MaxMarks
          /\ AudioDelta("this", item_id, "delta_1")
          /\ UNCHANGED relay
    \/ \E timestamp \in MediaTimestamps :
          timestamp > connections["this"].latestMediaTimestamp
          /\ Media("this", timestamp, "voice")
          /\ UNCHANGED relay
    \/ MarkReceived("this")
    \/ \E elapsed \in TickSteps :
          /\ connections["this"].signals > 0
          /\ now + elapsed <= ConnectedAt + MaxElapsed
          /\ Tick(elapsed)
    \/ conversationState.rawUserInput = << >>
          /\ SpeechPhrase(UserPlain, Some(70), FALSE)

SpecMedia == InitMediaStream /\ [][NextMedia]_vars

(***************************************************************************)
(* A caller who starts to speak and then sends frame after frame           *)
(***************************************************************************)

NextSilence ==
    \/ connections["this"].signals < 1 /\ SpeechStarted("this")
    \/ \E payload \in { "voice", "silence" } :
          connections["this"].frames < MaxFrames
          /\ Media("this", connections["this"].latestMediaTimestamp + 20, payload)
          /\ UNCHANGED relay

SpecSilence == InitMediaStream /\ [][NextSilence]_vars

(***************************************************************************)
(* The relay of audio between the two sockets of a call in progress, with  *)
(* the forwarding evaluations that the call's turns start                  *)
(***************************************************************************)

\* the caller's frames alternate between voice and silence, and no two
\* deltas of the backend are the same
RelayPayloads == << "voice", "silence" >>
RelayDeltas == << "delta_1", "delta_2", "delta_3" >>
NextFrame == RelayPayloads[(Len(relay.framesIn) % 2) + 1]
NextDelta == RelayDeltas[(Len(relay.deltasIn) % 3) + 1]
RelayTranscriptions == { UserPlain, UserHuman }

InitRelay ==
    /\ ENABLE_CALL_FORWARDING = TRUE
    /\ SUPPORT_AGENT_NUMBER = "+15550100"
    /\ streamSid \in StreamSids
    /\ callSid = "CA1"
    /\ sidLookup = "done"
    /\ inProgress = OwnCallInProgress
    /\ openAiReadyState = "OPEN"
    /\ conversationState = InitialConversationState
    /\ transferAttempted = Null
    /\ pending = << >>
    /\ transferLog = << >>
    /\ executeLog = << >>
    /\ callsMade = 0
    /\ adjudicatorLog = << >>
    /\ closePipeline = NotClosing
    /\ InitMedia

RoomInRelay ==
    /\ Len(conversationState.transcript) < MaxRelayTurns
    /\ Len(conversationState.rawUserInput) < MaxRelayTurns

NextRelay ==
    \/ /\ Len(relay.framesIn) < MaxRelayFrames
       /\ RelayMedia(connections["this"].latestMediaTimestamp + 20, NextFrame)
    \/ /\ Len(relay.deltasIn) < MaxRelayDeltas
       /\ closePipeline.pc = "idle"
       /\ RelayDelta("item_1", NextDelta)
    \/ OpenAiClose
    \/ \E transcription \in RelayTranscriptions :
          RoomInRelay /\ closePipeline.pc = "idle" /\ WhisperResult(transcription)
    \/ /\ RoomInRelay
       /\ closePipeline.pc = "idle"
       /\ AIResponse("response.audio_transcript.done", AiPlain, Absent)
    \/ \E i \in DOMAIN pending, outcome \in LLMOutcomes : LLMReturns(i, outcome)
    \/ \E i \in DOMAIN pending : PauseElapsed(i)
    \/ \E i \in DOMAIN pending : ExecuteReturns(i)
    \/ ConnectionClose
    \/ RecordingFinished(FALSE)
    \/ TicketSummarised(AllResolved)
    \/ TicketFiled

SpecRelay == InitRelay /\ [][NextRelay]_vars

(***************************************************************************)
(* The two sockets of a call from the connection on: the AI backend opens  *)
(* and is configured while Twilio starts the stream and sends its frames   *)
(***************************************************************************)

NextConfigure ==
    \/ \E sid \in StreamSids : TwilioStart(sid)
    \/ CallSidLookupDone("CA1")
    \/ BackendOpen
    \/ InitializeSession
    \/ /\ Len(relay.framesIn) < MaxRelayFrames
       /\ RelayMedia(connections["this"].latestMediaTimestamp + 20, NextFrame)
    \/ OpenAiClose
    \/ ConnectionClose
    \/ RecordingFinished(FALSE)

SpecConfigure == Init /\ [][NextConfigure]_vars

(***************************************************************************)
(* The forwarding evaluation as a function of the session it finds: the    *)
(* session starts with a transcript, a knowledge-base flag and identifiers *)
(* drawn from bounded sets, and one evaluation is applied to it            *)
(***************************************************************************)

\* a transcript entry as addToTranscript stores it for a text without a score
Turn(role, content) ==
    [ role |-> role, content |-> trimOf[content], confidence |-> Absent,
      level |-> Undefined ]

VerdictTurns ==
    { Turn("user", UserPlain), Turn("user", UserHuman), Turn("user", UserNegative),
      Turn("user", UserNegative2), Turn("assistant", AiPlain),
      Turn("assistant", AiEscalate) }

\* addToTranscript never leaves two equal turns next to each other
NoAdjacentDuplicate(transcript) ==
    \A i \in DOMAIN transcript :
        i + 1 \in DOMAIN transcript =>
            \/ transcript[i].role # transcript[i + 1].role
            \/ transcript[i].content # transcript[i + 1].content

\* the openings of a conversation: up to MaxHead turns
Heads ==
    { h \in UNION { [1..n -> VerdictTurns] : n \in 0..MaxHead } : NoAdjacentDuplicate(h) }

\* n assistant turns in a row that neither propose a transfer nor repeat
RECURSIVE Filler(_)
Filler(n) ==
    IF n = 0 THEN << >>
    ELSE Append(Filler(n - 1),
                Turn("assistant", IF n % 2 = 1 THEN AiPlain2 ELSE AiRoutine))

VerdictTranscripts == { h \o Filler(n) : h \in Heads, n \in 0..MaxFiller }

\* rawUserInput after the appends that built the transcript
RawOf(transcript) ==
    LET users == FilterRole(transcript, "user")
    IN  [ i \in DOMAIN users |->
            [ content |-> users[i].content, confidence |-> users[i].confidence,
              level |-> users[i].level, is_final |-> TRUE ] ]

InitVerdict ==
    /\ ENABLE_CALL_FORWARDING \in BOOLEAN
    /\ SUPPORT_AGENT_NUMBER = "+15550100"
    /\ streamSid \in StreamSids
    /\ callSid \in ListedCallSids
    /\ sidLookup = "done"
    /\ inProgress = OwnCallInProgress
    /\ openAiReadyState = "OPEN"
    /\ \E transcript \in VerdictTranscripts, kbMatchFound \in BOOLEAN :
           conversationState =
               [ InitialConversationState EXCEPT !.transcript = transcript,
                                                 !.rawUserInput = RawOf(transcript),
                                                 !.kbMatchFound = kbMatchFound ]
    /\ transferAttempted = Null
    /\ pending = << >>
    /\ transferLog = << >>
    /\ executeLog = << >>
    /\ callsMade = 0
    /\ adjudicatorLog = << >>
    /\ closePipeline = NotClosing
    /\ InitMedia

\* one call of checkAndHandleCallForwarding() on the session as it is
ForwardingCheck ==
    /\ callsMade = 0
    /\ callsMade' = callsMade + 1
    /\ Commit(checkAndHandleCallForwarding(Session))
    /\ UNCHANGED << inProgress, closePipeline, mediaVars, ENABLE_CALL_FORWARDING,
                    SUPPORT_AGENT_NUMBER, streamSid, callSid,
                    sidLookup, openAiReadyState, executeLog, adjudicatorLog >>

NextVerdict ==
    \/ ForwardingCheck
    \/ \E i \in DOMAIN pending, outcome \in LLMOutcomes : LLMReturns(i, outcome)
    \/ \E i \in DOMAIN pending : PauseElapsed(i)
    \/ \E i \in DOMAIN pending : ExecuteReturns(i)
    \/ \E i \in DOMAIN pending : ExecuteThrows(i, ErrUpdateRejected)
    \/ \E i \in DOMAIN pending, fresh \in CallSids \cup { Null } : RefreshReturns(i, fresh)
    \/ \E i \in DOMAIN pending : RetryThrows(i, ErrUpdateRejected)

SpecVerdict == InitVerdict /\ [][NextVerdict]_vars

(***************************************************************************)
(* The textual heuristics of evaluateForwardingWithLLM as a function of    *)
(* the most recent assistant turn: one evaluation of a session whose        *)
(* transcript has no human request                                         *)
(***************************************************************************)

HeuristicAiTexts ==
    { AiPlain, AiDirect, AiDirectRoutine, AiNoMatch, AiCannotRoutine, AiCannotKb,
      AiRoutine, AiKb, AiLong }

\* three user turns; an assistant turn followed by a user turn; two assistant
\* turns in a row
HeuristicTranscripts ==
    { << Turn("user", UserPlain), Turn("user", UserNegative),
         Turn("user", UserNegative2) >> }
    \cup { << Turn("user", UserPlain), Turn("assistant", last),
              Turn("user", UserNegative) >> : last \in HeuristicAiTexts }
    \cup { t \in { << Turn("user", UserPlain), Turn("assistant", earlier),
                       Turn("assistant", last) >> :
                         earlier \in HeuristicAiTexts, last \in HeuristicAiTexts } :
              NoAdjacentDuplicate(t) }

InitHeuristic ==
    /\ ENABLE_CALL_FORWARDING = TRUE
    /\ SUPPORT_AGENT_NUMBER = "+15550100"
    /\ streamSid \in StreamSids
    /\ callSid \in ListedCallSids
    /\ sidLookup = "done"
    /\ inProgress = OwnCallInProgress
    /\ openAiReadyState = "OPEN"
    /\ \E transcript \in HeuristicTranscripts, kbMatchFound \in BOOLEAN :
           conversationState =
               [ InitialConversationState EXCEPT !.transcript = transcript,
                                                 !.rawUserInput = RawOf(transcript),
                                                 !.kbMatchFound = kbMatchFound ]
    /\ transferAttempted = Null
    /\ pending = << >>
    /\ transferLog = << >>
    /\ executeLog = << >>
    /\ callsMade = 0
    /\ adjudicatorLog = << >>
    /\ closePipeline = NotClosing
    /\ InitMedia

SpecHeuristic == InitHeuristic /\ [][NextVerdict]_vars

(***************************************************************************)
(* The ticket summary as a function of the session the close handler finds *)
(* and of the answer of the conversation analysis                          *)
(***************************************************************************)

\* sessions at the end of a call whose recording could not be saved: two
\* turns exchanged with forwarding switched off, one turn only, and a call
\* whose caller asked for a human and was transferred
SummarySessions ==
    { [ transcript |-> << Turn("user", user), Turn("assistant", ai) >>,
        forwarding |-> FALSE, transferred |-> FALSE ] :
          user \in { UserPlain, UserEmail }, ai \in { AiPlain, AiNoMatch } }
    \cup { [ transcript |-> << Turn("user", UserPlain) >>,
             forwarding |-> FALSE, transferred |-> FALSE ],
           [ transcript |-> << Turn("user", UserPlain), Turn("user", UserHuman),
                               Turn("assistant", transferMessage) >>,
             forwarding |-> TRUE, transferred |-> TRUE ] }

\* what the conversation analysis may answer
SummaryAnswers ==
    [ resolvedQuestions : 0..MaxQuestions, unresolvedQuestions : 0..MaxQuestions,
      hasPositiveAcknowledgment : BOOLEAN, hasNegativeResponse : BOOLEAN ]

InitSummary ==
    /\ SUPPORT_AGENT_NUMBER = "+15550100"
    /\ streamSid = "MZ1"
    /\ callSid = "CA1"
    /\ sidLookup = "done"
    /\ inProgress = OwnCallInProgress
    /\ openAiReadyState = "OPEN"
    /\ \E session \in SummarySessions :
          /\ ENABLE_CALL_FORWARDING = session.forwarding
          /\ conversationState =
                 [ InitialConversationState EXCEPT
                     !.transcript = session.transcript,
                     !.rawUserInput = RawOf(session.transcript),
                     !.requiresHumanFollowup = session.transferred ]
          /\ transferAttempted = IF session.transferred THEN "CA1" ELSE Null
          /\ closePipeline =
                 [ NotClosing EXCEPT !.pc = "summary",
                                     !.turnsAtClose = Some(Len(session.transcript)) ]
    /\ pending = << >>
    /\ transferLog = << >>
    /\ executeLog = << >>
    /\ callsMade = 0
    /\ adjudicatorLog = << >>
    /\ InitMedia

NextSummary ==
    \/ \E answer \in SummaryAnswers : TicketSummarised(answer)
    \/ TicketFiled

SpecSummary == InitSummary /\ [][NextSummary]_vars

(***************************************************************************)
(* The transcript store on its own: addToTranscript applied to a session   *)
(* whose stream has not started                                            *)
(***************************************************************************)

AppendRoles == { "user", "assistant" }
AppendTexts == { "", UserBlank, UserPlain, UserPadded, UserEmail }
AppendConfidences == { Absent, Some(95) }

\* one call addToTranscript(role, content, confidence)
AppendTurn(role, content, confidence) ==
    /\ callsMade < MaxAppends
    /\ callsMade' = callsMade + 1
    /\ Commit(addToTranscript(Session, role, content, confidence))
    /\ UNCHANGED << inProgress, closePipeline, mediaVars, ENABLE_CALL_FORWARDING,
                    SUPPORT_AGENT_NUMBER, streamSid, callSid,
                    sidLookup, openAiReadyState, executeLog, adjudicatorLog >>

NextTranscript ==
    \E role \in AppendRoles, content \in AppendTexts, confidence \in AppendConfidences :
        AppendTurn(role, content, confidence)

SpecTranscript == Init /\ [][NextTranscript]_vars

(***************************************************************************)
(* The first turn of a session, appended with a confidence score: scores   *)
(* are counted in hundredths, 0.9 is 90                                    *)
(***************************************************************************)

ScoredConfidences == { Some(c) : c \in 0..100 } \cup { Absent }
ScoredTexts == { UserPlain, UserPadded }

\* the first call addToTranscript(role, content, confidence) of a session
ScoredTurn(role, content, confidence) ==
    /\ callsMade = 0
    /\ AppendTurn(role, content, confidence)

NextScored ==
    \E role \in AppendRoles, content \in ScoredTexts, confidence \in ScoredConfidences :
        ScoredTurn(role, content, confidence)

SpecScored == Init /\ [][NextScored]_vars

(***************************************************************************)
(* Properties of the forwarding decision engine in a call session          *)
(***************************************************************************)

\* C1: idempotent forwarding. Once an attempt has been recorded for the
\* call identifier, no evaluation that starts while the identifier is still
\* the same invokes transferCallToAgent: no recorded invocation belongs to an
\* evaluation that started after an invocation for the same identifier.
C1_IdempotentForwarding ==
    \A i \in DOMAIN transferLog : ~transferLog[i].afterAttempt

\* the position of the first transcript entry with this text, 0 when none
FirstTurn(content) ==
    LET transcript == conversationState.transcript
        at == { i \in DOMAIN transcript : transcript[i].content = content }
    IN  IF at = {} THEN 0 ELSE CHOOSE i \in at : \A j \in at : i <= j

\* a transfer was started, and after its acknowledgement an assistant turn by
\* which the AI proposes a transfer was appended (and evaluated): still one
\* invocation
C1_Witness ==
    /\ Len(transferLog) = 1
    /\ transferAttempted = callSid
    /\ FirstTurn(transferMessage) > 0
    /\ FirstTurn(AiEscalate) > FirstTurn(transferMessage)

\* C2: the attempt marker is written before transferCallToAgent is invoked:
\* every invocation finds the marker set to its call identifier, and none is
\* made by the evaluation that the acknowledgement or the apology appended
\* inside a transfer re-triggers.
C2_MarkerBeforeTransfer ==
    \A i \in DOMAIN transferLog :
        transferLog[i].guardSet /\ ~transferLog[i].nested

\* a transfer failed, and both its acknowledgement and its apology were
\* appended (each re-triggering an evaluation): one invocation
C2_Witness ==
    /\ Len(transferLog) = 1
    /\ pending = << >>
    /\ FirstTurn(transferMessage) > 0
    /\ \E e \in TransferErrors, n \in AgentNumbers :
           FirstTurn(trimOf[userErrorMessage(e, n)]) > FirstTurn(transferMessage)


\* C8: adjudicator failure is conservative. When the adjudicator call fails
\* or its output cannot be parsed, the evaluation that asked ends with a
\* no-forward verdict: no transfer is started, the attempt marker and
\* requiresHumanFollowup stay as they were.
C8_AdjudicatorFailureConservative ==
    [][ ( /\ Len(adjudicatorLog') = Len(adjudicatorLog) + 1
          /\ adjudicatorLog'[Len(adjudicatorLog')] \in { "unparseable", "failed" } )
        => /\ transferLog' = transferLog
           /\ transferAttempted' = transferAttempted
           /\ conversationState'.requiresHumanFollowup =
                  conversationState.requiresHumanFollowup
           /\ conversationState'.transcript = conversationState.transcript ]_vars

\* the adjudicator was asked in a session that could forward (forwarding
\* enabled, both identifiers resolved, no attempt recorded) and it failed
C8_Witness ==
    /\ ENABLE_CALL_FORWARDING
    /\ callSid # Null
    /\ streamSid # Null
    /\ adjudicatorLog \in { << "unparseable" >>, << "failed" >> }
    /\ transferAttempted = Null
    /\ transferLog = << >>
    /\ ~conversationState.requiresHumanFollowup

\* the last transcript entry, when it is a turn the AI backend delivered
LastIsAiTurn ==
    LET transcript == conversationState.transcript
    IN  /\ Len(transcript) > 0
        /\ transcript[Len(transcript)].role = "assistant"
        /\ transcript[Len(transcript)].content \in { trimOf[t] : t \in SessionAiTexts }

\* C6: configuration guard. When forwarding is disabled, or no support agent
\* number is configured, no evaluation ever invokes transferCallToAgent.
C6_ConfigurationGuard ==
    (~ENABLE_CALL_FORWARDING \/ SUPPORT_AGENT_NUMBER = "") => transferLog = << >>

\* C9: kbMatchFound is refreshed after every finalized assistant turn: once
\* the AI's turn is the last of the transcript, kbMatchFound is false if the
\* turn holds a no-answer marker and true if it holds none.
C9_KbMatchRefreshed ==
    LastIsAiTurn =>
        conversationState.kbMatchFound =
            ~noKBMatchOf[conversationState.transcript[Len(conversationState.transcript)].content]

(***************************************************************************)
(* Properties of the transcript store                                      *)
(***************************************************************************)

\* C10: dedup. The transcript never holds two adjacent entries with the same
\* role and the same trimmed text, and every call of addToTranscript for the
\* user with a text that is not blank adds exactly one raw observation, with
\* is_final true and the trimmed text, also when the transcript entry is
\* skipped as a duplicate.
C10_Dedup ==
    /\ [] NoAdjacentDuplicate(conversationState.transcript)
    /\ [][ \A content \in AppendTexts, confidence \in AppendConfidences :
             (trimOf[content] # "" /\ AppendTurn("user", content, confidence))
             => LET raw == conversationState.rawUserInput'
                IN  /\ Len(raw) = Len(conversationState.rawUserInput) + 1
                    /\ SubSeq(raw, 1, Len(raw) - 1) = conversationState.rawUserInput
                    /\ raw[Len(raw)].is_final
                    /\ raw[Len(raw)].content = trimOf[content] ]_vars

\* the same user text was appended twice in a row: one transcript entry, two
\* raw observations
C10_Witness ==
    /\ callsMade = 2
    /\ Len(conversationState.transcript) = 1
    /\ Len(conversationState.rawUserInput) = 2
    /\ conversationState.rawUserInput[1].content = conversationState.rawUserInput[2].content

(***************************************************************************)
(* Properties of one forwarding evaluation                                 *)
(***************************************************************************)

\* the step that applies the evaluation, and the step in which an adjudicator
\* call comes back
CheckStep == callsMade = 0 /\ callsMade' = 1
AdjudicatorStep == Len(adjudicatorLog') = Len(adjudicatorLog) + 1

\* forwarding enabled, both identifiers resolved, no attempt made yet
CanForward ==
    /\ ENABLE_CALL_FORWARDING
    /\ callSid # Null
    /\ streamSid # Null
    /\ transferAttempted # callSid

\* a user turn among the turns the evaluation scans has a human-request phrase
ScannedRequest == explicitRequestIn(recentTurns(Session))

\* an assistant turn among the turns the evaluation scans proposes a transfer
ScannedEscalation == aiIndicatesForwardingIn(recentTurns(Session))

\* one of the n most recent user turns has a human-request phrase
RequestAmongLastUserTurns(n) ==
    LET users == FilterRole(conversationState.transcript, "user")
    IN  \E i \in DOMAIN users :
            i > Len(users) - n /\ humanAgentRequestOf[users[i].content]

\* two user turns in a row have a negative-sentiment phrase
ConsecutiveNegativeTurns ==
    LET users == FilterRole(conversationState.transcript, "user")
    IN  \E i \in DOMAIN users :
            /\ i + 1 \in DOMAIN users
            /\ negativeResponseOf[users[i].content]
            /\ negativeResponseOf[users[i + 1].content]

AdjudicatorAsked == \E i \in DOMAIN pending : pending[i].pc = "llm"

\* C3: knowledge-base veto precedence. With forwarding enabled and no
\* attempt made yet, when kbMatchFound is true an evaluation starts the
\* transfer if a scanned user turn has an explicit human request and starts
\* none otherwise, whatever heuristic asks for it; and a forward verdict of
\* the adjudicator, which is only asked when there is no explicit request,
\* starts none either.
C3_KnowledgeBaseVeto ==
    [][ (CanForward /\ conversationState.kbMatchFound)
        => /\ CheckStep => Len(transferLog') = (IF ScannedRequest THEN 1 ELSE 0)
           /\ AdjudicatorStep => transferLog' = transferLog ]_vars

\* the adjudicator asked for a transfer, and the veto kept it from starting
C3_Witness ==
    /\ CanForward
    /\ conversationState.kbMatchFound
    /\ adjudicatorLog = << "true" >>
    /\ pending = << >>
    /\ transferLog = << >>

\* C4: the explicit-request rule covers the three most recent user turns.
\* With forwarding enabled, identifiers resolved and no attempt made yet, an
\* evaluation of a transcript in which one of the three most recent user
\* turns has a human-request phrase starts the transfer.
C4_ThreeRecentUserTurns ==
    [][ (CheckStep /\ CanForward /\ RequestAmongLastUserTurns(3))
        => Len(transferLog') = 1 ]_vars

IsPrefixOf(transcript, extended) ==
    /\ Len(transcript) <= Len(extended)
    /\ \A i \in DOMAIN transcript : extended[i] = transcript[i]

\* the step is the one in which createKayakoTicket replaces a transcript of at
\* most four entries by the messages parsed from the recording
AdoptsParsedTranscript ==
    /\ closePipeline.pc = "transcribe"
    /\ Len(conversationState.transcript) <= 4
    /\ closePipeline'.parsedTranscript # << >>
    /\ conversationState'.transcript = parsedTurns(closePipeline'.parsedTranscript)

C12_EmailWrittenOnce ==
    [][conversationState.userDetails.email # Undefined
       => conversationState'.userDetails.email = conversationState.userDetails.email]_vars

\* C13: requiresHumanFollowup is monotonic: a step from a state in which it is
\* true leads to a state in which it is true
C13_FollowupMonotonic ==
    [][conversationState.requiresHumanFollowup
       => conversationState'.requiresHumanFollowup]_vars

\* the transfer path had set the flag, and the close pipeline has run to its
\* end with an analysis that found nothing unresolved
C13_Witness ==
    /\ closePipeline.pc = "done"
    /\ transferLog # << >>
    /\ conversationState.requiresHumanFollowup

(***************************************************************************)
(* Claims about the audio path of two calls served at once (SpecMedia)     *)
(***************************************************************************)

\* the step is a run of the speech-started handler of connection c
SignalOn(c) == connections'[c].signals = connections[c].signals + 1

\* the signal comes less than 500 ms after the one c accepted last
Debounced(c) == now - connections[c].lastSpeechStartTime < SPEECH_DEBOUNCE

HasTruncate(effects) == \E i \in DOMAIN effects : effects[i].kind = "truncate"

\* C14: a speech-started signal that arrives less than 500 ms after the last
\* accepted one of its connection has no effect at all: no segment is
\* allocated, nothing is sent, the last-accepted time stays; any other signal
\* allocates a segment that starts now and becomes the last accepted one
C14_SpeechStartDebounce ==
    [][\A c \in Connections :
         SignalOn(c) =>
           IF Debounced(c)
           THEN /\ currentSpeechSegment' = currentSpeechSegment
                /\ isSpeaking' = isSpeaking
                /\ connections'[c] = [ connections[c] EXCEPT !.signals = @ + 1,
                                                             !.effects = << >> ]
           ELSE /\ connections'[c].effects # << >>
                /\ connections'[c].effects[1] = [ kind |-> "segment", id |-> now ]
                /\ currentSpeechSegment' # NoSegment
                /\ currentSpeechSegment'[1].startTime = now
                /\ currentSpeechSegment'[1].owner = c
                /\ isSpeaking'
                /\ connections'[c].lastSpeechStartTime = now]_vars

\* two signals have reached the connection within 100 ms, and the one segment
\* there is started with the first
C14_Witness ==
    /\ connections["this"].signals = 2
    /\ connections["this"].lastSpeechStartTime = ConnectedAt
    /\ now = ConnectedAt + 100
    /\ connections["other"].signals = 0
    /\ currentSpeechSegment # NoSegment
    /\ currentSpeechSegment[1].id = ConnectedAt

\* C15: sessions are independent: an event of one session never creates,
\* updates, ends or replaces the live segment or the speaking flag of the
\* other: a step of a handler of one connection leaves a segment that the
\* other connection allocated, and the flag, as they are
C15_SessionsIndependent ==
    [][/\ \A c \in Connections :
            ( /\ connections'[c] # connections[c]
              /\ currentSpeechSegment # NoSegment
              /\ currentSpeechSegment[1].owner # c )
            => /\ currentSpeechSegment' = currentSpeechSegment
               /\ isSpeaking' = isSpeaking
       /\ ( /\ conversationState' # conversationState
            /\ currentSpeechSegment # NoSegment
            /\ currentSpeechSegment[1].owner # "this" )
          => currentSpeechSegment' = currentSpeechSegment]_vars

\* C16: an accepted speech-started signal with an assistant item in flight
\* allocates the segment first, then sends one truncate for that item with
\* content index 0, then one clear, and forgets the item; with no item in
\* flight it allocates the segment and sends nothing
C16_BargeInOrder ==
    [][\A c \in Connections :
         (SignalOn(c) /\ ~Debounced(c)) =>
           IF connections[c].lastAssistantItem # Null
           THEN /\ Len(connections'[c].effects) = 3
                /\ connections'[c].effects[1].kind = "segment"
                /\ connections'[c].effects[2].kind = "truncate"
                /\ connections'[c].effects[2].item_id = connections[c].lastAssistantItem
                /\ connections'[c].effects[2].content_index = 0
                /\ connections'[c].effects[3].kind = "clear"
                /\ connections'[c].lastAssistantItem = Null
           ELSE /\ Len(connections'[c].effects) = 1
                /\ connections'[c].effects[1].kind = "segment"
                /\ connections'[c].lastAssistantItem = Null]_vars

\* the caller has barged in on item_1
C16_Witness ==
    /\ HasTruncate(connections["this"].effects)
    /\ connections["this"].effects[2].item_id = "item_1"
    /\ connections["this"].lastAssistantItem = Null
    /\ currentSpeechSegment # NoSegment

\* C17: every truncate sent on barge-in carries latestMediaTimestamp -
\* responseStartTimestamp, as they are when the signal arrives (the handler
\* leaves both as they were)
C17_TruncateCarriesElapsed ==
    \A c \in Connections :
      \A i \in DOMAIN connections[c].effects :
        connections[c].effects[i].kind = "truncate"
        => /\ connections[c].responseStartTimestampTwilio # Absent
           /\ connections[c].effects[i].audio_end_ms =
                connections[c].latestMediaTimestamp
                - connections[c].responseStartTimestampTwilio[1]

\* C18: right after an executed barge-in the outbound mark queue is empty and
\* the response start timestamp is unset
C18_CleanSlateAfterBargeIn ==
    \A c \in Connections :
      HasTruncate(connections[c].effects)
      => /\ connections[c].markQueue = << >>
         /\ connections[c].responseStartTimestampTwilio = Absent

\* C19: each inbound mark message removes exactly the oldest entry of the
\* outbound mark queue, nothing when the queue is empty
C19_MarkAckFifo ==
    [][\A c \in Connections :
         connections'[c].marksReceived = connections[c].marksReceived + 1
         => connections'[c].markQueue =
              IF connections[c].markQueue = << >> THEN << >>
              ELSE Tail(connections[c].markQueue)]_vars

(***************************************************************************)
(* Claim about a caller who falls silent (SpecSilence)                     *)
(***************************************************************************)

\* C20: once more than 50 media frames have followed the start of a segment
\* and the latest 20 of them were silence, the segment is no longer open
C20_SilenceEndsSegment ==
    ~ ( /\ isSpeaking
        /\ currentSpeechSegment # NoSegment
        /\ connections["this"].frames > SILENCE_MIN_PAYLOADS
        /\ connections["this"].quiet = SILENCE_WINDOW )

(***************************************************************************)
(* Properties of the transfer orchestration                                *)
(***************************************************************************)

\* the last turn of a transcript is an assistant turn the step has appended
AssistantTurnAppended ==
    /\ Len(conversationState'.transcript) = Len(conversationState.transcript) + 1
    /\ conversationState'.transcript[Len(conversationState'.transcript)].role = "assistant"

\* C29: missing precondition. An evaluation that reaches a forward verdict
\* (a scanned user turn asks for a human) while the call identifier is not
\* resolved invokes no transfer primitive, appends a diagnostic assistant
\* turn to the transcript, and leaves the session running.
C29_DiagnosticWhenUnresolved ==
    [][ (CheckStep /\ ENABLE_CALL_FORWARDING /\ ScannedRequest /\ callSid = Null)
        => /\ transferLog' = transferLog
           /\ executeLog' = executeLog
           /\ pending' = pending
           /\ AssistantTurnAppended ]_vars

\* the suspension points of transferCallToAgent, and how many of them an
\* invocation standing at one may still pass through
TransferPcs == { "pause", "execute", "refresh", "retry" }
StepsLeft(pc) ==
    CASE pc = "pause" -> 4
      [] pc = "execute" -> 3
      [] pc = "refresh" -> 2
      [] pc = "retry" -> 1
      [] OTHER -> 0

\* the invocations of transferCallToAgent that have not returned, and the
\* suspended run of the k-th of them
Transferring(suspended) == { i \in DOMAIN suspended : suspended[i].pc \in TransferPcs }
Running(suspended, k) == { i \in Transferring(suspended) : suspended[i].invocation = k }
TransferStepsLeft(suspended, k) ==
    IF Running(suspended, k) = { } THEN 0
    ELSE StepsLeft(suspended[CHOOSE i \in Running(suspended, k) : TRUE].pc)

\* C27: bounded transfer retry. An invocation of transferCallToAgent calls
\* executeCallTransfer at most twice: first with the call identifier it was
\* given, and a second time only after that call has thrown, with the
\* identifier freshly resolved from the stream, which differs from the first.
\* Nothing is called before the pause is over, a call that is retried is not
\* retried again, and no step takes the invocation back to an earlier point
\* of its run, so that it returns after at most four resumptions.
AtMostTwoCalls ==
    /\ \A i \in Transferring(pending) : pending[i].invocation \in DOMAIN transferLog
    /\ \A k \in DOMAIN transferLog :
          LET calls == transferLog[k].calls
          IN  /\ Cardinality(Running(pending, k)) <= 1
              /\ Running(pending, k) = { } <=> transferLog[k].outcome # "running"
              /\ Len(calls) <= 2
              /\ Len(calls) >= 1 => calls[1] = transferLog[k].callSid
              /\ Len(calls) = 2 => calls[2] \notin { Null, calls[1] }
              /\ \A i \in Running(pending, k) :
                    /\ pending[i].callSid = transferLog[k].callSid
                    /\ Len(calls) = (CASE pending[i].pc = "pause" -> 0
                                       [] pending[i].pc = "retry" -> 2
                                       [] OTHER -> 1)
                    /\ pending[i].pc \in { "refresh", "retry" } <=> pending[i].error # Null

NoWayBack ==
    \A k \in DOMAIN transferLog :
        /\ TransferStepsLeft(pending', k) <= TransferStepsLeft(pending, k)
        /\ Len(transferLog'[k].calls) >= Len(transferLog[k].calls)
        /\ Len(executeLog') - Len(executeLog) >=
               Len(transferLog'[k].calls) - Len(transferLog[k].calls)

C27_BoundedRetry == []AtMostTwoCalls /\ [][NoWayBack]_vars

\* the retried call has thrown too and the invocation has returned
C27_Witness ==
    /\ Len(transferLog) = 1
    /\ Len(transferLog[1].calls) = 2
    /\ executeLog = transferLog[1].calls
    /\ transferLog[1].outcome = "gaveUp"
    /\ Transferring(pending) = { }

\* the step in which the k-th invocation of transferCallToAgent gives up: its
\* call of executeCallTransfer has thrown and the retry was not possible, or
\* has thrown too
GivesUp(k) ==
    /\ transferLog[k].outcome = "running"
    /\ transferLog'[k].outcome = "gaveUp"

\* the apology of the catch block, as addToTranscript stores it
IsApology(turn) ==
    /\ turn.role = "assistant"
    /\ \E errorMessage \in TransferErrors :
          turn.content = trim(userErrorMessage(errorMessage, SUPPORT_AGENT_NUMBER))

Apologies(transcript) == { i \in DOMAIN transcript : IsApology(transcript[i]) }

\* the step appends one turn, the apology, and ends the k-th invocation
ApologisesOnce(k) ==
    /\ AssistantTurnAppended
    /\ IsApology(conversationState'.transcript[Len(conversationState'.transcript)])
    /\ Cardinality(Apologies(conversationState'.transcript)) =
           Cardinality(Apologies(conversationState.transcript)) + 1
    /\ Running(pending', k) = { }
    /\ executeLog' = executeLog

EndsQuietly(k) ==
    /\ conversationState'.transcript = conversationState.transcript
    /\ Running(pending', k) = { }
    /\ executeLog' = executeLog

\* the last turn of the transcript is an apology already
ApologyIsLast ==
    /\ conversationState.transcript # << >>
    /\ IsApology(conversationState.transcript[Len(conversationState.transcript)])

Acknowledgements(transcript) ==
    { i \in DOMAIN transcript :
        transcript[i].role = "assistant" /\ transcript[i].content = transferMessage }

\* the invocations started for a user turn asking for a human
ExplicitTransfers == { k \in DOMAIN transferLog : transferLog[k].explicitRequest }

\* the step starts the k-th invocation
Starts(k) == Len(transferLog) = k - 1 /\ Len(transferLog') = k

\* the first call of executeCallTransfer of the k-th invocation resolves
FirstCallResolves(k) ==
    /\ \E i \in Running(pending, k) : pending[i].pc = "execute"
    /\ transferLog'[k].outcome = "transferred"

\* no invocation has acknowledged twice, and a transfer for an explicit
\* request has acknowledged
AcknowledgedOnce ==
    /\ Cardinality(Acknowledgements(conversationState.transcript)) <= Len(transferLog)
    /\ ExplicitTransfers # { }
       => Cardinality(Acknowledgements(conversationState.transcript)) >= 1

\* the acknowledgement comes before the primitive is invoked, and a primitive
\* that resolves at once has been invoked once and is not invoked again
InvokedOnce ==
    \A k \in ExplicitTransfers' :
        /\ Starts(k)
           => /\ Cardinality(Acknowledgements(conversationState'.transcript)) =
                     Cardinality(Acknowledgements(conversationState.transcript)) + 1
              /\ Len(conversationState'.transcript) \in
                     Acknowledgements(conversationState'.transcript)
              /\ transferLog'[k].calls = << >>
              /\ executeLog' = executeLog
        /\ k \in DOMAIN transferLog /\ FirstCallResolves(k)
           => /\ executeLog' = executeLog
              /\ transferLog'[k].calls = << transferLog[k].callSid >>
              /\ Running(pending', k) = { }
              /\ Acknowledgements(conversationState'.transcript) =
                     Acknowledgements(conversationState.transcript)
        /\ k \in DOMAIN transferLog /\ transferLog[k].outcome = "transferred"
           => transferLog'[k] = transferLog[k]

\* C30: the explicit-request scenario. When a user turn asks for a human,
\* the identifiers are resolved and executeCallTransfer succeeds, the
\* transfer started for that turn appends exactly one acknowledgement
\* assistant turn to the transcript, before the primitive is invoked, and
\* invokes the primitive exactly once.
C30_ExplicitRequestEndToEnd == []AcknowledgedOnce /\ [][InvokedOnce]_vars

\* the caller asked for a human, was acknowledged and was transferred by the
\* first call of the primitive
C30_Witness ==
    /\ ExplicitTransfers = { 1 }
    /\ Len(transferLog) = 1
    /\ transferLog[1].outcome = "transferred"
    /\ transferLog[1].calls = << callSid >>
    /\ executeLog = << callSid >>
    /\ pending = << >>
    /\ \E i \in DOMAIN conversationState.transcript :
          /\ conversationState.transcript[i].role = "user"
          /\ humanAgentRequestOf[conversationState.transcript[i].content]
          /\ Acknowledgements(conversationState.transcript) = { i + 1 }

(***************************************************************************)
(* Properties of the close pipeline                                        *)
(***************************************************************************)

\* the close handler moves from step `from' to another one
Leaves(from) == closePipeline.pc = from /\ closePipeline'.pc # from

\* the step posts the ticket
PostsTicket == closePipeline'.ticketPosts = closePipeline.ticketPosts + 1

\* C21: the close pipeline degrades gracefully. With a non-empty transcript
\* the close handler goes from finishing the recording to transcribing it
\* (when there is a file), then to the summary, then to the ticket
\* submission, in this order; when finishing the recording fails it goes on
\* with the summary, when transcribing or parsing fails it goes on with the
\* summary too, and the summary is always followed by the submission.
C21_CloseDegradesGracefully ==
    [][ /\ Leaves("finishRecording") /\ Len(conversationState.transcript) > 0
           => /\ closePipeline'.pc = (IF closePipeline'.mp3Exists THEN "transcribe"
                                      ELSE "summary")
              /\ ~PostsTicket
        /\ Leaves("transcribe") => closePipeline'.pc = "summary" /\ ~PostsTicket
        /\ Leaves("summary") => closePipeline'.pc = "ticket" /\ PostsTicket
        /\ Leaves("ticket") => closePipeline'.pc = "done" /\ ~PostsTicket
        /\ closePipeline'.ticketPosts # closePipeline.ticketPosts => Leaves("summary")
      ]_vars

\* the ticket was posted although the recording could not be finished
C21_Witness ==
    /\ closePipeline.pc = "ticket"
    /\ closePipeline.ticketPosts = 1
    /\ streamSid # Null
    /\ ~closePipeline.mp3Exists

\* the ticket was posted although the recording could not be transcribed
TicketAfterUnreadableRecording ==
    /\ closePipeline.pc = "ticket"
    /\ closePipeline.ticketPosts = 1
    /\ closePipeline.mp3Exists
    /\ closePipeline.audioTranscript = Absent

\* C22: the empty call. When the telephony channel closes while the
\* transcript holds zero turns, no ticket is posted, whatever was recorded;
\* and a session posts at most one ticket.
C22_EmptyCallNoTicket ==
    /\ closePipeline.turnsAtClose = Some(0) => closePipeline.ticketPosts = 0
    /\ closePipeline.ticketPosts <= 1

\* a step taken while the close handler runs that is neither a step of the
\* handler nor the continuation of an evaluation suspended earlier: an event
\* of the AI backend, or a transcription that Whisper returns late
LateEvent ==
    /\ closePipeline.pc \notin { "idle", "done" }
    /\ closePipeline' = closePipeline
    /\ pending = << >>

\* C23: no events are processed after close. Once the telephony channel has
\* closed and the close handler has begun, an event of the AI backend or a
\* late transcription result appends nothing to the transcript or to the raw
\* observations and starts no forwarding evaluation.
C23_NoEventsAfterClose ==
    [][ LateEvent
        => /\ conversationState'.transcript = conversationState.transcript
           /\ conversationState'.rawUserInput = conversationState.rawUserInput
           /\ pending' = << >>
           /\ transferLog' = transferLog ]_vars

(***************************************************************************)
(* Properties of the audio relay                                           *)
(***************************************************************************)

\* the socket to the AI backend closes while the telephony socket is open
BackendCloses ==
    /\ closePipeline.pc = "idle"
    /\ openAiReadyState = "OPEN"
    /\ openAiReadyState' # "OPEN"

\* C24: the close of either channel tears the session down. When the socket
\* to the AI backend closes while the telephony socket is open, the session
\* moves to its teardown: the close pipeline begins.
C24_BackendCloseTearsDown == [][ BackendCloses => closePipeline'.pc # "idle" ]_vars

\* the payloads of the commands on record
Payloads(commands) == [ i \in DOMAIN commands |-> commands[i].payload ]

\* a is b with some of its elements left out
IsSubsequence(a, b) ==
    \E at \in [ DOMAIN a -> DOMAIN b ] :
        /\ \A i, j \in DOMAIN a : i < j => at[i] < at[j]
        /\ \A i \in DOMAIN a : a[i] = b[at[i]]

\* C25: relay order. The audio the append commands carry to the AI backend
\* is, in the same order, a subsequence of the media frames received from
\* Twilio, and the media commands sent to Twilio carry, in the same order,
\* exactly the audio deltas received from the AI backend.
C25_RelayOrder ==
    /\ IsSubsequence(Payloads(relay.appendsOut), relay.framesIn)
    /\ Payloads(relay.mediaOut) = relay.deltasIn

\* a frame went to the backend, another came while the backend's socket was
\* closed, and two different deltas went to Twilio
C25_Witness ==
    /\ Len(relay.framesIn) > Len(relay.appendsOut)
    /\ Len(relay.appendsOut) >= 1
    /\ Len(relay.mediaOut) = 2
    /\ relay.mediaOut[1].payload # relay.mediaOut[2].payload

\* the step receives a media frame from Twilio, an audio delta from the backend
FrameReceived == Len(relay'.framesIn) = Len(relay.framesIn) + 1
DeltaReceived == Len(relay'.deltasIn) = Len(relay.deltasIn) + 1

\* the step sends the frame it received to the backend, the delta to Twilio
FrameForwarded ==
    /\ Len(relay'.appendsOut) = Len(relay.appendsOut) + 1
    /\ relay'.appendsOut[Len(relay'.appendsOut)].payload
         = relay'.framesIn[Len(relay'.framesIn)]
DeltaForwarded ==
    /\ Len(relay'.mediaOut) = Len(relay.mediaOut) + 1
    /\ relay'.mediaOut[Len(relay'.mediaOut)].payload
         = relay'.deltasIn[Len(relay'.deltasIn)]

\* with both sockets open and an evaluation suspended, the two relay
\* handlers can run
RelayOpen ==
    (SuspendedAt(pending) /\ closePipeline.pc = "idle" /\ openAiReadyState = "OPEN")
    => /\ ENABLED RelayMedia(connections["this"].latestMediaTimestamp + 20, "voice")
       /\ ENABLED RelayDelta("item_1", "delta_1")

\* a frame or a delta that arrives while an evaluation is suspended is
\* forwarded in the step that receives it
ForwardedAtOnce ==
    SuspendedAt(pending)
    => /\ FrameReceived /\ openAiReadyState = "OPEN" => FrameForwarded
       /\ DeltaReceived => DeltaForwarded

\* C26: the audio relay is never blocked by forwarding. While a forwarding
\* evaluation is suspended at the adjudicator call, or a transfer is in its
\* pause, the handlers of media frames and of audio deltas can run, a media
\* frame that arrives is forwarded to the AI backend (whose socket is open)
\* in the step that receives it, and an audio delta that arrives is
\* forwarded to Twilio in the step that receives it.
C26_RelayNotBlocked == []RelayOpen /\ [][ForwardedAtOnce]_vars

\* a frame and a delta were relayed while an evaluation was suspended
C26_Witness ==
    /\ \E i \in DOMAIN relay.appendsOut : relay.appendsOut[i].during
    /\ \E i \in DOMAIN relay.mediaOut : relay.mediaOut[i].during

(***************************************************************************)
(* Properties of the ticket summary                                        *)
(***************************************************************************)

\* the ticket summary the close handler has computed
Summarised == closePipeline.ticketInfo # Absent
ticketInfo == closePipeline.ticketInfo[1]

\* C31 as stated: for every combination of its inputs, any unresolved
\* question gives the ticket priority HIGH, and zero unresolved questions
\* together with a positive closing sentiment and no knowledge-base miss
\* give LOW.
C31_PriorityDerivation ==
    Summarised
    => /\ ticketInfo.analysis.unresolvedQuestions > 0 => ticketInfo.priority = "HIGH"
       /\ ( /\ ticketInfo.analysis.unresolvedQuestions = 0
            /\ ticketInfo.analysis.hasPositiveAcknowledgment
            /\ ~ticketInfo.noKBMatch )
          => ticketInfo.priority = "LOW"

\* C31: the priority is HIGH exactly when a question is unresolved or an
\* answer of the assistant missed the knowledge base; it is LOW exactly when
\* neither is so, some question is resolved, the closing sentiment is
\* positive, no negative response was found and the session's follow-up flag
\* is not set; it is MEDIUM in every other case.
C31_PriorityDerivationWithFollowup ==
    Summarised
    => LET high == ticketInfo.analysis.unresolvedQuestions > 0 \/ ticketInfo.noKBMatch
           low == /\ ~high
                  /\ ticketInfo.analysis.resolvedQuestions > 0
                  /\ ticketInfo.analysis.hasPositiveAcknowledgment
                  /\ ~ticketInfo.analysis.hasNegativeResponse
                  /\ ~ticketInfo.followupFlag
       IN  ticketInfo.priority = (IF high THEN "HIGH" ELSE IF low THEN "LOW" ELSE "MEDIUM")

\* a ticket of LOW priority: a question resolved and a content caller
C31_Witness ==
    /\ Summarised
    /\ ticketInfo.priority = "LOW"
    /\ ticketInfo.analysis.resolvedQuestions > 0
    /\ ticketInfo.analysis.hasPositiveAcknowledgment

(***************************************************************************)
(* Properties of the confidence annotation                                 *)
(***************************************************************************)

\* the level the three-way rule gives to a score in hundredths
ExpectedLevel(c) == IF c > 90 THEN "high" ELSE IF c > 60 THEN "medium" ELSE "low"

\* the entry carries the level of the score it was appended with
Annotated(entry) ==
    entry.confidence # Absent => entry.level = ExpectedLevel(entry.confidence[1])

\* C32: the confidence annotation is total. A turn appended with a
\* confidence c is annotated HIGH if c > 0.9, MEDIUM if 0.6 < c <= 0.9 and
\* LOW otherwise, for every provided c from 0 to 1, c = 0 included; so is the
\* raw observation of a user turn.
C32_AnnotationTotal ==
    /\ \A i \in DOMAIN conversationState.transcript :
           Annotated(conversationState.transcript[i])
    /\ \A i \in DOMAIN conversationState.rawUserInput :
           Annotated(conversationState.rawUserInput[i])

(***************************************************************************)
(* Properties of the textual heuristics                                    *)
(***************************************************************************)

\* the most recent assistant utterance, "" when there is none
LastAssistantUtterance ==
    LET aiResponses == FilterRole(conversationState.transcript, "assistant")
    IN  IF aiResponses = << >> THEN "" ELSE aiResponses[Len(aiResponses)].content

\* the verdict in the stated precedence; "ask" stands for the adjudicator
PrecedenceVerdict ==
    LET last == LastAssistantUtterance
    IN  IF FilterRole(conversationState.transcript, "assistant") = << >> THEN "noForward"
        ELSE IF SomePhraseCI(last, forwardingPhrases) THEN "forward"
        ELSE IF SomePhraseCI(last, cannotHelpPhrases) THEN "forward"
        ELSE IF \/ SomePhraseCI(last, routineConversationPhrases)
                \/ SomePhraseCI(last, kbIndicatorPhrases)
             THEN "noForward"
        ELSE IF Len(last) > 100 THEN "noForward"
        ELSE "ask"

\* the evaluation gets as far as evaluateForwardingWithLLM
HeuristicsConsulted ==
    /\ CheckStep
    /\ CanForward
    /\ ~ScannedRequest
    /\ ~ScannedEscalation
    /\ Len(conversationState.transcript) >= FORWARDING_THRESHOLD

\* C33: evaluateForwardingWithLLM decides from the most recent assistant
\* utterance in a fixed precedence: no assistant turn gives no-forward; a
\* direct-forwarding phrase gives forward; otherwise a cannot-help phrase
\* gives forward even with a routine or knowledge-base phrase present;
\* otherwise a routine or knowledge-base phrase gives no-forward; otherwise a
\* length above 100 characters gives no-forward. The adjudicator is called
\* exactly when none of these applies. (A forward verdict starts the
\* transfer unless the knowledge-base veto holds it back.)
C33_HeuristicPrecedence ==
    [][ HeuristicsConsulted
        => /\ (\E i \in DOMAIN pending' : pending'[i].pc = "llm")
                  <=> PrecedenceVerdict = "ask"
           /\ Len(transferLog') = 1
                  <=> (PrecedenceVerdict = "forward" /\ ~conversationState.kbMatchFound)
           /\ PrecedenceVerdict = "noForward" => pending' = pending ]_vars

\* the last assistant utterance both cannot help and closes the conversation,
\* and the transfer was started without the adjudicator
C33_Witness ==
    /\ conversationState.transcript[2].content = AiCannotRoutine
    /\ conversationState.transcript[3].role = "user"
    /\ callsMade = 1
    /\ Len(transferLog) = 1
    /\ adjudicatorLog = << >>

(***************************************************************************)
(* Properties of overlapping evaluations and of the end of the call        *)
(***************************************************************************)

\* the invocations of transferCallToAgent made for a call identifier
InvocationsFor(sid) == { k \in DOMAIN transferLog : transferLog[k].callSid = sid }

\* C34: at most one transfer per session, also under overlap. When an
\* evaluation is suspended at the adjudicator and a second evaluation runs to
\* a forward verdict meanwhile, transferCallToAgent is still invoked at most
\* once for the call identifier.
C34_OneTransferUnderOverlap ==
    \A sid \in CallSids : Cardinality(InvocationsFor(sid)) <= 1

(***************************************************************************)
(* Property of the configuration of the AI backend                         *)
(***************************************************************************)

\* the positions of the session-configuration command on the backend channel
Configurations == { i \in DOMAIN relay.backendOut : relay.backendOut[i] = "session.update" }

\* C35: configuration precedes audio. On the AI backend channel the
\* session-configuration command is sent once per session, never twice, and
\* no audio-append command is sent before it.
C35_ConfigurationPrecedesAudio ==
    /\ Cardinality(Configurations) <= 1
    /\ \A i \in DOMAIN relay.backendOut :
           relay.backendOut[i] = "input_audio_buffer.append"
           => \E j \in Configurations : j < i

\* C36: the follow-up flag is visible to the ticket. In a session where a
\* transfer was started, requiresHumanFollowup is already true when the close
\* pipeline computes the ticket summary, also when the telephony channel
\* closes while the transfer is still inside its pauses.
C36_FollowupVisibleToTicket ==
    (Summarised /\ ticketInfo.transfersStarted > 0) => ticketInfo.followupFlag


\* C37: no transfer after hang-up.  Once connection.on('close') has run for
\* the session, executeCallTransfer is not invoked for it any more, whatever
\* was pending at the moment of the close (a forwarding evaluation, the pause
\* of a transfer, a Whisper transcription).
HungUp == closePipeline.pc # "idle"

C37_NoTransferAfterHangUp ==
    [][HungUp => executeLog' = executeLog]_vars


(***************************************************************************)
(* The listing of calls in progress                                        *)
(***************************************************************************)

\* calls.sort((a, b) => new Date(b.dateCreated).getTime() -
\* new Date(a.dateCreated).getTime())[0]: the sort is stable, so of the calls
\* created last the one listed first
sortedCallsFirst(calls) ==
    LET latest(i) == \A j \in DOMAIN calls :
                        calls[j].dateCreated <= calls[i].dateCreated
    IN calls[CHOOSE i \in DOMAIN calls :
                latest(i) /\ \A j \in 1..(i - 1) : ~latest(j)]

\* a lookup that takes the call listed first
firstListedCallSid(calls) ==
    IF Len(calls) = 0 THEN Null ELSE calls[1].sid

\* getCallSidFromStreamSid(streamSid), calls being what
\* twilioClient.calls.list({ status: 'in-progress' }) resolved with
getCallSidFromStreamSid(calls) ==
    IF Len(calls) = 0 THEN Null
    ELSE IF Len(calls) = 1 THEN calls[1].sid
    ELSE sortedCallsFirst(calls).sid

\* what the lookup resolves with: the listing's answer, or null when the
\* request to Twilio threw
lookupResult(listed) ==
    IF listed THEN getCallSidFromStreamSid(inProgress) ELSE Null

\* another call of the account is answered; Twilio lists it before or after
\* the session's call
OtherCallAnswered(dateCreated, position) ==
    /\ \A k \in DOMAIN inProgress : inProgress[k].sid # OtherCall
    /\ position \in 0..Len(inProgress)
    /\ inProgress' = SubSeq(inProgress, 1, position)
                     \o << [ sid |-> OtherCall, dateCreated |-> dateCreated ] >>
                     \o SubSeq(inProgress, position + 1, Len(inProgress))
    /\ UNCHANGED << closePipeline, mediaVars, ENABLE_CALL_FORWARDING,
                    SUPPORT_AGENT_NUMBER, streamSid, callSid, sidLookup,
                    openAiReadyState, conversationState, transferAttempted, pending,
                    transferLog, executeLog, callsMade, adjudicatorLog >>

\* the other call ends
OtherCallCompleted ==
    /\ \E k \in DOMAIN inProgress :
          /\ inProgress[k].sid = OtherCall
          /\ inProgress' = RemoveAt(inProgress, k)
    /\ UNCHANGED << closePipeline, mediaVars, ENABLE_CALL_FORWARDING,
                    SUPPORT_AGENT_NUMBER, streamSid, callSid, sidLookup,
                    openAiReadyState, conversationState, transferAttempted, pending,
                    transferLog, executeLog, callsMade, adjudicatorLog >>

\* a call on an account that has another call as well: the caller asks for a
\* human, and the transfer is followed through its retry
NextListing ==
    \/ \E sid \in StreamSids : TwilioStart(sid)
    \/ \E listed \in BOOLEAN : CallSidLookupDone(lookupResult(listed))
    \/ \E dateCreated \in { CreatedEarlier, CreatedLater },
          position \in 0..1 : OtherCallAnswered(dateCreated, position)
    \/ OtherCallCompleted
    \/ RoomInCall /\ WhisperResult(UserHuman)
    \/ \E i \in DOMAIN pending : PauseElapsed(i)
    \/ \E i \in DOMAIN pending : ExecuteReturns(i)
    \/ \E i \in DOMAIN pending :
          ExecuteThrows(i, ErrCallNotFound(pending[i].callSid))
    \/ \E i \in DOMAIN pending, listed \in BOOLEAN :
          RefreshReturns(i, lookupResult(listed))
    \/ \E i \in DOMAIN pending : RetryThrows(i, ErrUpdateRejected)

SpecListing == InitCall /\ [][NextListing]_vars

\* C38 as stated: a session transfers only its own call.  The identifier the
\* session resolves, and every identifier it passes to executeCallTransfer,
\* is that of the call whose stream it serves, never that of the other call
\* in progress.
C38_OwnCallOnly ==
    /\ callSid \in { Null, OwnCall }
    /\ \A k \in DOMAIN executeLog : executeLog[k] = OwnCall

\* the calls in progress created last, and whether the session's is the
\* only such call
CreatedLast(sid) ==
    \E k \in DOMAIN inProgress :
        /\ inProgress[k].sid = sid
        /\ \A j \in DOMAIN inProgress :
              inProgress[j].dateCreated <= inProgress[k].dateCreated

\* the lookup of the stream start resolves, or a retry re-resolves and calls
\* executeCallTransfer again
Resolves == sidLookup = "pending" /\ sidLookup' = "done" /\ callSid' # callSid

\* executeCallTransfer is invoked, and what with
Invoked == Len(executeLog') > Len(executeLog)
InvokedWith == executeLog'[Len(executeLog')]

\* C38: a session transfers the call created last.  The identifier resolved
\* at stream start and the one re-resolved on retry are those of the call in
\* progress that was created last at the time of the listing: the session's
\* own call when it is the only one in progress or the youngest, the other
\* call when that one was created later.  executeCallTransfer is passed the
\* identifier resolved at stream start or, on retry, the one just re-resolved.
C38_MostRecentCallOnly ==
    /\ [][Resolves => CreatedLast(callSid')]_vars
    /\ [][Invoked => (InvokedWith = callSid \/ CreatedLast(InvokedWith))]_vars

\* the session's call was the only one when the stream started; the other
\* call was made later and is what the retry transferred
C38_Witness ==
    /\ Len(inProgress) = 2
    /\ callSid = OwnCall
    /\ executeLog = << OwnCall, OtherCall >>


(***************************************************************************)
(* A request that waits to be served                                       *)
(***************************************************************************)

\* what the two channels deliver in the specification of the served
\* request: every turn that is appended has the forwarding check run
ServedTranscriptions == { UserHuman }
ServedAiTexts == { AiPlain, AiPlain2 }

\* the bounds of the run keep one turn for the time after the lookup of the
\* call identifier has settled, so that a further event is then delivered
RoomInServedCall ==
    /\ RoomInCall
    /\ sidLookup # "done" =>
          /\ Len(conversationState.transcript) < MaxCallTurns - 1
          /\ Len(conversationState.rawUserInput) < MaxCallRaw - 1

\* the events of a call that goes on: the stream starts, the lookup of the
\* call identifier resolves, turns arrive on both channels, and a transfer
\* takes its steps; the call is not hung up
TurnDelivered ==
    \/ \E text \in ServedAiTexts :
          RoomInServedCall /\ AIResponse("response.audio_transcript.done", text, Absent)
    \/ \E transcription \in ServedTranscriptions :
          RoomInServedCall /\ WhisperResult(transcription)

LookupResolved == \E sid \in ListedCallSids : CallSidLookupDone(sid)

TransferStep ==
    \/ \E i \in DOMAIN pending, outcome \in LLMOutcomes : LLMReturns(i, outcome)
    \/ \E i \in DOMAIN pending : PauseElapsed(i)
    \/ \E i \in DOMAIN pending : ExecuteReturns(i)
    \/ \E i \in DOMAIN pending : ExecuteThrows(i, ErrUpdateRejected)
    \/ \E i \in DOMAIN pending : RefreshReturns(i, Null)

NextServed ==
    \/ \E sid \in StreamSids : TwilioStart(sid)
    \/ LookupResolved
    \/ OpenAiOpen /\ UNCHANGED relay
    \/ TurnDelivered
    \/ TransferStep

\* the promise of the lookup settles, timers fire and requests to Twilio and
\* to the adjudicator come back; every event a channel has for the session is
\* delivered
FairDelivery ==
    /\ WF_vars(\E sid \in StreamSids : TwilioStart(sid))
    /\ WF_vars(LookupResolved)
    /\ WF_vars(TurnDelivered)
    /\ WF_vars(TransferStep)

SpecServed == InitCall /\ [][NextServed]_vars /\ FairDelivery

\* C39: an explicit request is eventually served.  With forwarding enabled,
\* once a user turn of the transcript contains an explicit request for a
\* human, a transfer is eventually started for the session, also when the
\* call identifier was unresolved at the time of the request.
RequestMade ==
    ENABLE_CALL_FORWARDING /\ explicitRequestIn(conversationState.transcript)

TransferStarted == transferLog # << >>

Allocates ==
    /\ currentSpeechSegment' # NoSegment
    /\ currentSpeechSegment' # currentSpeechSegment
    /\ currentSpeechSegment'[1].audioPayloads = << >>

C40_AllocatedFromIdle ==
    [][Allocates => currentSpeechSegment = NoSegment]_vars

====
